---- MODULE Spec2Model ----
(***************************************************************************)
(* Model of the macro-agent engine of skills/macro-agent/macro_agent.py:   *)
(* the element registry lookup, the screen matcher, the single-action      *)
(* interpreter and the batch runner behind the `run` command.              *)
(*                                                                         *)
(* Conventions                                                             *)
(*  - a Python str is a sequence of one-character strings;                 *)
(*  - Python None / an absent optional is the empty sequence <<>>, a       *)
(*    coordinate pair is <<x, y>>, so `if not coords` is `coords = <<>>`;  *)
(*  - an image file "stem.png" of the captures directory is named by its   *)
(*    stem; the alphabet has none of the characters of ".png" nor any glob *)
(*    metacharacter;                                                       *)
(*  - a template-matching score is an integer number of hundredths.        *)
(***************************************************************************)
EXTENDS Integers, Sequences, FiniteSets, TLC

(***************************************************************************)
(* Bounds of the model                                                     *)
(***************************************************************************)
MaxActions == 3
MaxRandom == 3
MaxCalls == 3
MaxImages == 2
MaxText == 3

(***************************************************************************)
(* Strings                                                                 *)
(***************************************************************************)
\* str.lower() over the model's alphabet
lower(s) == [k \in 1..Len(s) |-> IF s[k] = "A" THEN "a" ELSE s[k]]

\* str.replace(' ', '_')
replace_space(s) == [k \in 1..Len(s) |-> IF s[k] = " " THEN "_" ELSE s[k]]

\* Python `sub in s` for strings
str_in(sub, s) ==
    \E k \in 0..(Len(s) - Len(sub)) : SubSeq(s, k + 1, k + Len(sub)) = sub

\* Python `x in list`
list_in(x, l) == \E k \in 1..Len(l) : l[k] = x

\* s.startswith(p)
startswith(s, p) == Len(p) <= Len(s) /\ SubSeq(s, 1, Len(p)) = p

RECURSIVE split_from(_, _, _)
\* s.split('_'): the pieces between consecutive '_' (empty pieces kept)
split_from(s, k, cur) ==
    IF k > Len(s) THEN <<cur>>
    ELSE IF s[k] = "_" THEN <<cur>> \o split_from(s, k + 1, <<>>)
    ELSE split_from(s, k + 1, Append(cur, s[k]))

split_underscore(s) == split_from(s, 1, <<>>)

RECURSIVE SelectIdx(_, _, _)
\* the subsequence of l (order kept) of the entries whose index is in keep
SelectIdx(l, k, keep) ==
    IF k > Len(l) THEN <<>>
    ELSE (IF k \in keep THEN <<l[k]>> ELSE <<>>) \o SelectIdx(l, k + 1, keep)

RECURSIVE dedup(_, _)
\* list(dict.fromkeys(l)): first occurrences, order kept
dedup(l, seen) ==
    IF l = <<>> THEN <<>>
    ELSE IF Head(l) \in seen THEN dedup(Tail(l), seen)
    ELSE <<Head(l)>> \o dedup(Tail(l), seen \cup {Head(l)})

(***************************************************************************)
(* Element registry (elements.json)                                        *)
(*   file = [exists, valid, elements]; elements is the JSON object as the  *)
(*   ordered list of its members [key, name, description, images, tags] *)
(***************************************************************************)
\* the key add_element stores a display name under
name_key(name) == lower(replace_space(name))

\* d[value.key] = value on a dict kept as the list of its items: a present key
\* keeps its place, a new key goes last
dict_set(d, value) ==
    IF \E k \in 1..Len(d) : d[k].key = value.key
    THEN [k \in 1..Len(d) |-> IF d[k].key = value.key THEN value ELSE d[k]]
    ELSE Append(d, value)

RECURSIVE dict_of(_, _)
\* the dict json.load builds from the members of a JSON object, read in order
dict_of(members, d) ==
    IF members = <<>> THEN d ELSE dict_of(Tail(members), dict_set(d, Head(members)))

dict_has(d, key) == \E k \in 1..Len(d) : d[k].key = key

dict_get(d, key) == d[CHOOSE k \in 1..Len(d) : d[k].key = key]

\* del d[key]
dict_del(d, key) == SelectSeq(d, LAMBDA e : e.key # key)

\* mutant of load_elements: the existence test is inverted
load_elements_inverted(file) ==
    IF file.exists THEN [raised |-> FALSE, elements |-> <<>>]
    ELSE IF ~file.valid THEN [raised |-> TRUE, elements |-> <<>>]
    ELSE [raised |-> FALSE, elements |-> dict_of(file.elements, <<>>)]

\* load_elements: {} when the file is absent, raises when it cannot be parsed
load_elements(file) ==
    IF ~file.exists THEN [raised |-> FALSE, elements |-> <<>>]
    ELSE IF ~file.valid THEN [raised |-> TRUE, elements |-> <<>>]
    ELSE [raised |-> FALSE, elements |-> dict_of(file.elements, <<>>)]

\* save_elements: json.dump writes the items of the dict in order
save_elements(elements) == [exists |-> TRUE, valid |-> TRUE, elements |-> elements]

\* index of the first member satisfying P, 0 when there is none
FirstIdx(l, P(_)) ==
    IF \E k \in 1..Len(l) : P(l[k])
    THEN CHOOSE k \in 1..Len(l) : P(l[k]) /\ \A j \in 1..(k - 1) : ~P(l[j])
    ELSE 0

\* mutant of lookup: the substring match is tried before the exact key
lookup_partial_first(elements, name_lower, exact, partial, tagged) ==
    IF partial > 0 THEN <<elements[partial]>>
    ELSE IF exact > 0 THEN <<elements[exact]>>
    ELSE IF tagged > 0 THEN <<elements[tagged]>>
    ELSE <<>>

\* the lookup of get_element in the loaded mapping
lookup(elements, name_lower, exact, partial, tagged) ==
    IF exact > 0 THEN <<elements[exact]>>
    ELSE IF partial > 0 THEN <<elements[partial]>>
    ELSE IF tagged > 0 THEN <<elements[tagged]>>
    ELSE <<>>

\* get_element on what load_elements gave: exact key, then substring of a
\* key, then substring of a tag
get_loaded(ld, name_lower) ==
    IF ld.raised THEN [raised |-> TRUE, elem |-> <<>>]
    ELSE [raised |-> FALSE,
          elem |-> lookup(ld.elements, name_lower,
                     FirstIdx(ld.elements, LAMBDA e : e.key = name_lower),
                     FirstIdx(ld.elements, LAMBDA e : str_in(name_lower, lower(e.key))),
                     FirstIdx(ld.elements,
                       LAMBDA e : \E t \in 1..Len(e.tags) : str_in(name_lower, lower(e.tags[t]))))]

\* get_element: [raised, elem]
get_element(file, name) == get_loaded(load_elements(file), lower(name))

\* what a call on the registry gives: whether it raised, whether it ended the
\* process through error(), the file it leaves and the value it returns
called(raised, exit, file, value) ==
    [raised |-> raised, exit |-> exit, file |-> file, value |-> value]

\* the record add_element and add_image_to_element create
new_element(key, description, images, tags) ==
    [key |-> key, name |-> key, description |-> description, images |-> images, tags |-> tags]

\* elements[name_key] = value; save_elements(elements); return elements[name_key]
add_to(file, ld, value) ==
    IF ld.raised THEN called(TRUE, FALSE, file, <<>>)
    ELSE called(FALSE, FALSE, save_elements(dict_set(ld.elements, value)), <<value>>)

\* add_element: the record replaces what the key had; images and tags are
\* stored as given (None as [])
add_element(file, name, description, images, tags) ==
    add_to(file, load_elements(file), new_element(name_key(name), description, images, tags))

\* the record of `key` once image_file was added to it
with_image(elements, key, image_file, description, tags) ==
    IF dict_has(elements, key)
    THEN (IF list_in(image_file, dict_get(elements, key).images) THEN dict_get(elements, key)
          ELSE [dict_get(elements, key) EXCEPT !.images = Append(@, image_file)])
    ELSE new_element(key, description, <<image_file>>, tags)

add_image_loaded(file, ld, key, image_file, description, tags) ==
    IF ld.raised THEN called(TRUE, FALSE, file, <<>>)
    ELSE add_to(file, ld, with_image(ld.elements, key, image_file, description, tags))

\* add_image_to_element of macro_agent.py
add_image_to_element(file, name, image_file) ==
    add_image_loaded(file, load_elements(file), name_key(name), image_file, <<>>, <<>>)

\* add_image_to_element of region_capture.py: a new element gets the
\* description and the tags asked from the operator
capture_add_image_to_element(file, element_name, image_file, description, tags) ==
    add_image_loaded(file, load_elements(file), name_key(element_name), image_file,
                     description, tags)

elem_delete_loaded(file, ld, key) ==
    IF ld.raised THEN called(TRUE, FALSE, file, <<>>)
    ELSE IF ~dict_has(ld.elements, key) THEN called(FALSE, TRUE, file, <<>>)
    ELSE called(FALSE, FALSE, save_elements(dict_del(ld.elements, key)), <<>>)

\* cmd_elem_delete: error() when the key is not there
cmd_elem_delete(file, name) == elem_delete_loaded(file, load_elements(file), name_key(name))

(***************************************************************************)
(* Screen matcher                                                          *)
(*   dir    : the captures directory, the list of its image stems in the   *)
(*            order the file system lists them (no stem twice)             *)
(*   screen : [shotOk, tm]; shotOk tells whether the screen capture        *)
(*            succeeds, tm[f] is what matching template f against the      *)
(*            captured screen gives: [readable, w, h, res] with res the    *)
(*            result matrix as the row-major list of [x, y, score]         *)
(***************************************************************************)
\* glob.glob of a pattern without wildcard: the file itself when it exists
glob_exact(dir, stem) == IF list_in(stem, dir) THEN <<stem>> ELSE <<>>

\* glob.glob of "<prefix>_*.png"
glob_prefix(dir, prefix) ==
    SelectIdx(dir, 1, {k \in 1..Len(dir) : startswith(dir[k], Append(prefix, "_"))})

\* the recorded images of the resolved element that exist in the directory
registry_images(dir, elem) ==
    IF elem = <<>> THEN <<>>
    ELSE LET images == elem[1].images
         IN  SelectIdx(images, 1, {k \in 1..Len(images) : list_in(images[k], dir)})

\* the filename-pattern fallback, before deduplication
pattern_images(dir, name) ==
    LET name_normalized == lower(replace_space(name))
        words == split_underscore(name_normalized)
        partial == IF Len(words) > 1
                   THEN SelectIdx(dir, 1,
                          {k \in 1..Len(dir) :
                              \A w \in 1..Len(words) : str_in(words[w], lower(dir[k]))})
                   ELSE <<>>
    IN  glob_exact(dir, name_normalized)
          \o glob_prefix(dir, name_normalized)
          \o glob_exact(dir, replace_space(name))
          \o glob_prefix(dir, replace_space(name))
          \o partial

\* mutant of with_fallback: the pattern search is always added
with_fallback_always(image_files, dir, name) ==
    dedup(image_files \o pattern_images(dir, name), {})

\* `if not image_files`: the fallback is used when no recorded image exists
with_fallback(image_files, dir, name) ==
    IF image_files # <<>> THEN image_files ELSE dedup(pattern_images(dir, name), {})

\* image_files of find_element_on_screen
candidate_images(dir, elem, name) == with_fallback(registry_images(dir, elem), dir, name)

\* mutant of locations: every location is taken, whatever its score
locations_all(res, confidence) ==
    SelectIdx(res, 1, 1..Len(res))

\* np.where(result >= confidence) in scan order
locations(res, confidence) ==
    SelectIdx(res, 1, {k \in 1..Len(res) : res[k].score >= confidence})

\* mutant of better: the last of several equal scores wins
better_or_equal(score, best_confidence) == score >= best_confidence

\* `if match_confidence > best_confidence`
better(score, best_confidence) == score > best_confidence

\* one location of one template: register it, keep it when it is the best so far
record_match(acc, center_x, center_y, score, image) ==
    [best_match |-> IF better(score, acc.best_confidence) THEN <<center_x, center_y>>
                    ELSE acc.best_match,
     best_confidence |-> IF better(score, acc.best_confidence) THEN score
                         ELSE acc.best_confidence,
     matches_found |-> acc.matches_found,
     all_matches |-> Append(acc.all_matches,
                       [x |-> center_x, y |-> center_y, score |-> score, image |-> image])]

RECURSIVE scan_locations(_, _, _, _, _)
\* the loop over the locations of one template: acc = [best_match,
\* best_confidence, all_matches]
scan_locations(locs, w, h, image, acc) ==
    IF locs = <<>> THEN acc
    ELSE scan_locations(Tail(locs), w, h, image,
           record_match(acc, Head(locs).x + (w \div 2), Head(locs).y + (h \div 2),
                        Head(locs).score, image))

\* one template: skipped when it cannot be read, else counted and scanned
scan_image(img, t, locs, acc) ==
    IF ~t.readable THEN acc
    ELSE scan_locations(locs, t.w, t.h, img, [acc EXCEPT !.matches_found = @ + Len(locs)])

RECURSIVE scan_images(_, _, _, _)
\* the loop over image_files; an unreadable template is skipped
scan_images(image_files, tm, confidence, acc) ==
    IF image_files = <<>> THEN acc
    ELSE scan_images(Tail(image_files), tm, confidence,
           scan_image(Head(image_files), tm[Head(image_files)],
                      locations(tm[Head(image_files)].res, confidence), acc))

RECURSIVE insert_desc(_, _)
\* insert e after every entry whose score is at least e's (stable)
insert_desc(sorted, e) ==
    IF sorted = <<>> THEN <<e>>
    ELSE IF Head(sorted).score >= e.score THEN <<Head(sorted)>> \o insert_desc(Tail(sorted), e)
    ELSE <<e>> \o sorted

RECURSIVE sort_desc(_, _)
\* list.sort(key=score, reverse=True), which is stable
sort_desc(l, sorted) ==
    IF l = <<>> THEN sorted ELSE sort_desc(Tail(l), insert_desc(sorted, Head(l)))

emptyInfo ==
    [matches_found |-> 0, best_score |-> 0, images_tested |-> 0,
     all_matches |-> <<>>, element_config |-> <<>>]

\* the return of find_element_on_screen
found_as(coords, method, info) ==
    [raised |-> FALSE, coords |-> coords, method |-> method, info |-> info]

\* PASO 2 done: sort the candidates, report the best match
find_scanned(info, acc) ==
    IF acc.best_match # <<>>
    THEN found_as(acc.best_match, "image",
                  [info EXCEPT !.matches_found = acc.matches_found,
                               !.all_matches = sort_desc(acc.all_matches, <<>>),
                               !.best_score = acc.best_confidence])
    ELSE found_as(<<>>, "not_found",
                  [info EXCEPT !.matches_found = acc.matches_found,
                               !.all_matches = sort_desc(acc.all_matches, <<>>),
                               !.best_score = acc.best_confidence])

\* mutant of find_images: a failed screen capture is reported as "not_found"
find_images_not_found(info, image_files, confidence, screen) ==
    IF ~screen.shotOk THEN found_as(<<>>, "not_found", info)
    ELSE find_scanned(info,
           scan_images(image_files, screen.tm, confidence,
             [best_match |-> <<>>, best_confidence |-> 0,
              matches_found |-> 0, all_matches |-> <<>>]))

\* the screen capture and the scan of the candidate images
find_images(info, image_files, confidence, screen) ==
    IF ~screen.shotOk THEN found_as(<<>>, "screenshot_error", info)
    ELSE find_scanned(info,
           scan_images(image_files, screen.tm, confidence,
             [best_match |-> <<>>, best_confidence |-> 0,
              matches_found |-> 0, all_matches |-> <<>>]))

\* PASO 1 done: the element configuration and the candidate images are known
find_resolved(elem, image_files, confidence, screen) ==
    find_images([emptyInfo EXCEPT
                   !.element_config = IF elem = <<>> THEN <<>> ELSE <<elem[1].name>>,
                   !.images_tested = Len(image_files)],
                image_files, confidence, screen)
      @@ [image_files |-> image_files]

\* find_element_on_screen once the libraries are known to be there
find_loaded(ge, name, confidence, dir, screen) ==
    IF ge.raised
    THEN [raised |-> TRUE, coords |-> <<>>, method |-> "raised", info |-> emptyInfo]
    ELSE find_resolved(ge.elem, candidate_images(dir, ge.elem, name), confidence, screen)

\* find_element_on_screen: [raised, coords, method, info]
find_element_on_screen(name, confidence, has_pyautogui, has_cv2, file, dir, screen) ==
    IF ~has_pyautogui THEN found_as(<<>>, "no_pyautogui", emptyInfo)
    ELSE IF ~has_cv2 THEN found_as(<<>>, "no_cv2", emptyInfo)
    ELSE find_loaded(get_element(file, name), name, confidence, dir, screen)

\* the record kept of one call of find_element_on_screen: its arguments, what
\* it returned and the image_files it tested
match_of(name, confidence, found) ==
    [name |-> name, confidence |-> confidence, raised |-> found.raised,
     coords |-> found.coords, method |-> found.method, info |-> found.info,
     image_files |-> IF "image_files" \in DOMAIN found THEN found.image_files ELSE <<>>]

\* mutant of visible_of: only "not_found" counts as not visible
visible_of_unless_not_found(name, confidence, f) ==
    [raised |-> f.raised, visible |-> f.method # "not_found", info |-> f.info,
     match |-> match_of(name, confidence, f)]

\* is_element_visible: [raised, visible, info] and the match it rests on
visible_of(name, confidence, f) ==
    [raised |-> f.raised, visible |-> f.coords # <<>>, info |-> f.info,
     match |-> match_of(name, confidence, f)]

is_element_visible(name, confidence, has_pyautogui, has_cv2, file, dir, screen) ==
    visible_of(name, confidence,
      find_element_on_screen(name, confidence, has_pyautogui, has_cv2, file, dir, screen))

(***************************************************************************)
(* Pointer mover                                                           *)
(*   A device call is an event record; the mover returns the list of the   *)
(*   pointer placements it issues.  Durations are in hundredths of a       *)
(*   second.  rnd carries the random draws of one action:                  *)
(*     speed      speed multiplier, in hundredths                          *)
(*     curve      offset <<dx, dy>> the Bezier control points give to the  *)
(*                interior points of the path                              *)
(*     jitter     "none", "last" or "all": the steps that draw a jitter    *)
(*     jitterVec  the jitter offset <<dx, dy>>                             *)
(*     overshoot  whether random() < overshoot_chance                      *)
(*     overshoot_dist  the overshoot distance, in pixels                   *)
(***************************************************************************)
DIRECT_DISTANCE == 5
STEPS_PER_SECOND == 60
MIN_STEPS == 10
DEFAULT_DURATION == 50
DRAG_LEG_DURATION == 30
DEFAULT_CONFIDENCE == 80

moveTo(x, y) == [op |-> "moveTo", x |-> x, y |-> y]

Max(a, b) == IF a >= b THEN a ELSE b

Abs(a) == IF a < 0 THEN -a ELSE a

\* int(a / b) for b > 0: truncation toward zero
TruncDiv(a, b) == IF a >= 0 THEN a \div b ELSE -((-a) \div b)

RECURSIVE isqrt_from(_, _)
isqrt_from(n, r) == IF (r + 1) * (r + 1) > n THEN r ELSE isqrt_from(n, r + 1)

\* floor of the square root
isqrt(n) == isqrt_from(n, 0)

\* the placement of step i of n: the eased Bezier point, jittered, truncated
path_point(start, end, i, n, rnd) ==
    LET interior == i > 0 /\ i < n
        jit == rnd.jitter = "all" \/ (rnd.jitter = "last" /\ i = n)
        px == start[1] + TruncDiv((end[1] - start[1]) * i, n)
                + (IF interior THEN rnd.curve[1] ELSE 0)
                + (IF jit THEN rnd.jitterVec[1] ELSE 0)
        py == start[2] + TruncDiv((end[2] - start[2]) * i, n)
                + (IF interior THEN rnd.curve[2] ELSE 0)
                + (IF jit THEN rnd.jitterVec[2] ELSE 0)
    IN  moveTo(px, py)

\* mutant of move_smooth: without overshoot the path ends on its last step
move_smooth_no_final(start, x, y, duration, humanize, rnd) ==
    LET dx == x - start[1]
        dy == y - start[2]
        num_steps == Max((duration * rnd.speed * STEPS_PER_SECOND) \div 10000, MIN_STEPS)
        steps == [k \in 1..(num_steps + 1) |-> path_point(start, <<x, y>>, k - 1, num_steps, rnd)]
        distance == isqrt(dx * dx + dy * dy)
        over == moveTo(x + TruncDiv(dx * rnd.overshoot_dist, Max(distance, 1)),
                       y + TruncDiv(dy * rnd.overshoot_dist, Max(distance, 1)))
    IN  IF dx * dx + dy * dy < DIRECT_DISTANCE * DIRECT_DISTANCE THEN <<moveTo(x, y)>>
        ELSE IF ~humanize THEN <<moveTo(x, y)>>
        ELSE IF rnd.overshoot THEN steps \o <<over, moveTo(x, y)>>
        ELSE steps

\* mutant of move_smooth: only a move of no distance at all is direct
move_smooth_zero_only(start, x, y, duration, humanize, rnd) ==
    LET dx == x - start[1]
        dy == y - start[2]
        num_steps == Max((duration * rnd.speed * STEPS_PER_SECOND) \div 10000, MIN_STEPS)
        steps == [k \in 1..(num_steps + 1) |-> path_point(start, <<x, y>>, k - 1, num_steps, rnd)]
        distance == isqrt(dx * dx + dy * dy)
        over == moveTo(x + TruncDiv(dx * rnd.overshoot_dist, Max(distance, 1)),
                       y + TruncDiv(dy * rnd.overshoot_dist, Max(distance, 1)))
    IN  IF ~humanize THEN <<moveTo(x, y)>>
        ELSE IF dx * dx + dy * dy = 0 THEN <<moveTo(x, y)>>
        ELSE IF rnd.overshoot THEN steps \o <<over, moveTo(x, y)>>
        ELSE Append(steps, moveTo(x, y))

\* move_smooth with pyautogui available: the placements issued, in order
move_smooth(start, x, y, duration, humanize, rnd) ==
    LET dx == x - start[1]
        dy == y - start[2]
        num_steps == Max((duration * rnd.speed * STEPS_PER_SECOND) \div 10000, MIN_STEPS)
        steps == [k \in 1..(num_steps + 1) |-> path_point(start, <<x, y>>, k - 1, num_steps, rnd)]
        distance == isqrt(dx * dx + dy * dy)
        over == moveTo(x + TruncDiv(dx * rnd.overshoot_dist, Max(distance, 1)),
                       y + TruncDiv(dy * rnd.overshoot_dist, Max(distance, 1)))
    IN  IF dx * dx + dy * dy < DIRECT_DISTANCE * DIRECT_DISTANCE THEN <<moveTo(x, y)>>
        ELSE IF ~humanize THEN <<moveTo(x, y)>>
        ELSE IF rnd.overshoot THEN steps \o <<over, moveTo(x, y)>>
        ELSE Append(steps, moveTo(x, y))

RECURSIVE pointer_after(_, _)
\* where the pointer is after a list of device calls
pointer_after(pointer, calls) ==
    IF calls = <<>> THEN pointer
    ELSE IF calls[Len(calls)].op = "moveTo"
    THEN <<calls[Len(calls)].x, calls[Len(calls)].y>>
    ELSE pointer_after(pointer, SubSeq(calls, 1, Len(calls) - 1))

(***************************************************************************)
(* Keyboard helper                                                         *)
(***************************************************************************)
\* remove_accents: "@" stands for an accented "a" (base letter + mark)
remove_accents(text) == [k \in 1..Len(text) |-> IF text[k] = "@" THEN "a" ELSE text[k]]

RECURSIVE split_lines(_, _, _)
\* text.split('\n'), "/" standing for the newline character
split_lines(text, k, cur) ==
    IF k > Len(text) THEN <<cur>>
    ELSE IF text[k] = "/" THEN <<cur>> \o split_lines(text, k + 1, <<>>)
    ELSE split_lines(text, k + 1, Append(cur, text[k]))

RECURSIVE write_lines_enter_each(_, _)
\* mutant of write_lines: shift+enter follows every line, the last one too
write_lines_enter_each(lines, k) ==
    IF k > Len(lines) THEN <<>>
    ELSE (IF lines[k] # <<>> THEN <<[op |-> "write", text |-> lines[k]]>> ELSE <<>>)
           \o <<[op |-> "hotkey", keys |-> <<"shift", "enter">>]>>
           \o write_lines_enter_each(lines, k + 1)

RECURSIVE write_lines(_, _)
\* the loop of do_write over the lines, from line k on
write_lines(lines, k) ==
    IF k > Len(lines) THEN <<>>
    ELSE (IF lines[k] # <<>> THEN <<[op |-> "write", text |-> lines[k]]>> ELSE <<>>)
           \o (IF k < Len(lines) THEN <<[op |-> "hotkey", keys |-> <<"shift", "enter">>]>> ELSE <<>>)
           \o write_lines(lines, k + 1)

\* do_write with pyautogui available: the keyboard calls issued
write_clean(text_clean) ==
    IF list_in("/", text_clean) THEN write_lines(split_lines(text_clean, 1, <<>>), 1)
    ELSE <<[op |-> "write", text |-> text_clean]>>

do_write(text) == write_clean(remove_accents(text))

(***************************************************************************)
(* Mouse helpers (pyautogui available): the device calls issued            *)
(***************************************************************************)
\* do_click / right click: optional smooth move, then the click
do_click(pointer, xy, button, rnd) ==
    (IF xy # <<>> THEN move_smooth(pointer, xy[1], xy[2], DEFAULT_DURATION, TRUE, rnd) ELSE <<>>)
      \o <<[op |-> "click", button |-> button]>>

do_double_click(pointer, xy, rnd) ==
    (IF xy # <<>> THEN move_smooth(pointer, xy[1], xy[2], DEFAULT_DURATION, TRUE, rnd) ELSE <<>>)
      \o <<[op |-> "doubleClick"]>>

\* the drag once the pointer is on the start point
drag_from(leg1, pointer, x2, y2, rnd) ==
    leg1 \o <<[op |-> "mouseDown"]>>
         \o move_smooth(pointer_after(pointer, leg1), x2, y2, DEFAULT_DURATION, TRUE, rnd)
         \o <<[op |-> "mouseUp"]>>

do_drag(pointer, x1, y1, x2, y2, rnd) ==
    drag_from(move_smooth(pointer, x1, y1, DRAG_LEG_DURATION, TRUE, rnd), pointer, x2, y2, rnd)

do_scroll(pointer, amount, xy, rnd) ==
    (IF xy # <<>> THEN move_smooth(pointer, xy[1], xy[2], DRAG_LEG_DURATION, TRUE, rnd) ELSE <<>>)
      \o <<[op |-> "scroll", amount |-> amount]>>

(***************************************************************************)
(* Action interpreter                                                      *)
(*   An action is a record with a `type` and the fields its JSON object    *)
(*   has.  env = [has_pyautogui, file, dir, screen, pointer, sounds].      *)
(*   execute_action gives [exit, result, calls, dir, match]: exit tells    *)
(*   that error() printed its message and raised SystemExit, calls are the *)
(*   device calls performed, dir the captures directory afterwards, match  *)
(*   what find_element_on_screen returned when the action called it        *)
(*   (<<>> otherwise).                                                     *)
(***************************************************************************)
has(action, f) == f \in DOMAIN action

\* action.get(f, default)
get(action, f, default) == IF f \in DOMAIN action THEN action[f] ELSE default

\* the optional coordinate pair of click / double-click / right-click / scroll
get_xy(action) ==
    IF has(action, "x") /\ has(action, "y") THEN <<action.x, action.y>> ELSE <<>>

\* the stem of the file a screenshot action writes
screenshot_file(action, rnd) ==
    IF has(action, "filename") THEN action.filename ELSE <<"s", "_", rnd.time>>

\* the captures directory once `stem` has been written
dir_with(dir, stem) == IF list_in(stem, dir) THEN dir ELSE Append(dir, stem)

\* mutant of not_found_result: the diagnostics are dropped
not_found_result_bare(info) == [success |-> FALSE, error |-> "Elemento no encontrado"]

\* {"success": False, "error": ..., **info} of an unresolved move-to / click-on
not_found_result(info) == [success |-> FALSE, error |-> "Elemento no encontrado"] @@ info

\* {"success": False, "error": str(e)}
failure(msg) == [success |-> FALSE, error |-> msg]

\* execute_action returns `result`
returned(result, calls, dir) ==
    [exit |-> FALSE, result |-> result, calls |-> calls, dir |-> dir, match |-> <<>>]

\* the audio feedback is off: the state file says so, or is missing or broken
SoundsOff ==
    [enabled |-> FALSE, libs_loaded |-> FALSE, libs_available |-> FALSE,
     import |-> "ImportError", play |-> "nofile"]

\* what a call of the hook gives: whether an exception left it, the lines of
\* plain text it printed on standard output ([line |-> text]), whether a sound was started, the module globals afterwards
hook_end(raised, out, played, s) ==
    [raised |-> raised, out |-> out, played |-> played, sounds |-> s]

\* _play_sound_file once the libraries are there: the rate limit and a missing
\* file return, an exception of read() or play() is swallowed
play_loaded(s) == hook_end(FALSE, <<>>, s.play = "played", s)

\* _load_libs on its first call: libs_loaded is set before the import, only
\* ImportError is caught
load_libs(s) ==
    CASE s.import = "ok" ->
           play_loaded([s EXCEPT !.libs_loaded = TRUE, !.libs_available = TRUE])
      [] s.import = "ImportError" ->
           hook_end(FALSE, <<[line |-> "[sounds] Warning"]>>, FALSE,
                    [s EXCEPT !.libs_loaded = TRUE])
      [] OTHER -> hook_end(TRUE, <<>>, FALSE, [s EXCEPT !.libs_loaded = TRUE])

\* _play_sound_file, behind sound_click, sound_double_click, sound_scroll,
\* sound_type, sound_key and sound_hotkey
play_sound_file(s) ==
    IF ~s.enabled THEN hook_end(FALSE, <<>>, FALSE, s)
    ELSE IF ~s.libs_loaded THEN load_libs(s)
    ELSE IF ~s.libs_available THEN hook_end(FALSE, <<>>, FALSE, s)
    ELSE play_loaded(s)

\* the device calls and the sound started, if one was
with_sound(calls, h) == IF h.played THEN Append(calls, [op |-> "sound"]) ELSE calls

\* execute_action returns `result` after the hook ran
returned_hooked(result, calls, dir, h) ==
    [exit |-> FALSE, result |-> result, calls |-> calls, dir |-> dir, match |-> <<>>,
     sounds |-> h.sounds, out |-> h.out]

\* the device calls of a helper: the call failAt (if any) raises
device_calls(action, env, failAt, calls, fields) ==
    IF failAt \in 1..Len(calls)
    THEN returned(failure("device error"), SubSeq(calls, 1, failAt - 1), env.dir)
    ELSE returned(fields @@ [action |-> action.type, success |-> TRUE], calls, env.dir)

\* do_write: sound_type() is called before anything is typed
hook_before(action, env, failAt, calls, fields, h) ==
    IF h.raised THEN returned_hooked(failure("sound error"), <<>>, env.dir, h)
    ELSE IF failAt \in 1..Len(calls)
    THEN returned_hooked(failure("device error"),
                         with_sound(<<>>, h) \o SubSeq(calls, 1, failAt - 1), env.dir, h)
    ELSE returned_hooked(fields @@ [action |-> action.type, success |-> TRUE],
                         with_sound(<<>>, h) \o calls, env.dir, h)

\* mutant of hook_after: an exception of the hook is swallowed
hook_after_guarded(action, env, calls, fields, h) ==
    returned_hooked(fields @@ [action |-> action.type, success |-> TRUE],
                    with_sound(calls, h), env.dir, h)

\* do_click, do_double_click, do_scroll, do_press, do_hotkey: the hook is called
\* after the device calls, inside the try of execute_action
hook_after(action, env, calls, fields, h) ==
    IF h.raised THEN returned_hooked(failure("sound error"), calls, env.dir, h)
    ELSE returned_hooked(fields @@ [action |-> action.type, success |-> TRUE],
                         with_sound(calls, h), env.dir, h)

\* a helper that needs pyautogui is called: error() exits the process when the
\* library is missing, the call failAt (if any) raises, else the action
\* succeeds; hook tells where the helper calls the audio feedback
device(action, env, failAt, calls, fields, hook) ==
    IF ~env.has_pyautogui
    THEN [exit |-> TRUE, result |-> failure("pyautogui no disponible"),
          calls |-> <<>>, dir |-> env.dir, match |-> <<>>]
    ELSE IF hook = "before"
    THEN hook_before(action, env, failAt, calls, fields, play_sound_file(env.sounds))
    ELSE IF hook = "after" /\ failAt \notin 1..Len(calls)
    THEN hook_after(action, env, calls, fields, play_sound_file(env.sounds))
    ELSE device_calls(action, env, failAt, calls, fields)

\* a required field is missing: KeyError, caught
key_error(env) == returned(failure("KeyError"), <<>>, env.dir)

\* move-to / click-on once find_element_on_screen has answered
on_found(action, env, rnd, found) ==
    IF found.raised THEN returned(failure("JSONDecodeError"), <<>>, env.dir)
    ELSE IF found.coords = <<>> THEN returned(not_found_result(found.info), <<>>, env.dir)
    ELSE device(action, env, rnd.failAt,
           IF action.type = "move-to"
           THEN move_smooth(env.pointer, found.coords[1], found.coords[2],
                            get(action, "duration", DEFAULT_DURATION), TRUE, rnd)
           ELSE do_click(env.pointer, found.coords, get(action, "button", "left"), rnd),
           [target |-> action.target, coordinates |-> found.coords,
            method |-> found.method, match_info |-> found.info],
           IF action.type = "move-to" THEN "none" ELSE "after")

\* the return of execute_action together with the match it rests on
with_match(r, name, confidence, found) ==
    [r EXCEPT !.match = <<match_of(name, confidence, found)>>]

\* move-to / click-on with a target
on_target_found(action, env, rnd, confidence, found) ==
    with_match(on_found(action, env, rnd, found), action.target, confidence, found)

\* move-to / click-on
on_target(action, env, rnd) ==
    IF ~has(action, "target") THEN key_error(env)
    ELSE on_target_found(action, env, rnd, get(action, "confidence", DEFAULT_CONFIDENCE),
           find_element_on_screen(action.target, get(action, "confidence", DEFAULT_CONFIDENCE),
             env.has_pyautogui, env.has_pyautogui, env.file, env.dir, env.screen))

\* the screenshot action with pyautogui available
screenshot_to(stem, env, failAt) ==
    IF failAt = 1 THEN returned(failure("device error"), <<>>, env.dir)
    ELSE returned([action |-> "screenshot", success |-> TRUE,
                   filepath |-> stem, image_base64 |-> stem],
                  <<[op |-> "screenshot", file |-> stem]>>, dir_with(env.dir, stem))

\* time.sleep(seconds) of the wait action
wait_for(seconds, env) ==
    IF seconds < 0 THEN returned(failure("ValueError"), <<>>, env.dir)
    ELSE returned([action |-> "wait", success |-> TRUE, seconds |-> seconds], <<>>, env.dir)

\* execute_action
execute_action(action, env, rnd) ==
    CASE get(action, "type", "") = "move" ->
           IF ~has(action, "x") \/ ~has(action, "y") THEN key_error(env)
           ELSE device(action, env, rnd.failAt,
                  move_smooth(env.pointer, action.x, action.y,
                              get(action, "duration", DEFAULT_DURATION), TRUE, rnd),
                  [coordinates |-> <<action.x, action.y>>], "none")
      [] get(action, "type", "") \in {"move-to", "click-on"} -> on_target(action, env, rnd)
      [] get(action, "type", "") \in {"click", "right-click"} ->
           device(action, env, rnd.failAt,
             do_click(env.pointer, get_xy(action),
                      IF action.type = "click" THEN get(action, "button", "left") ELSE "right",
                      rnd),
             [coordinates |-> get_xy(action)], "after")
      [] get(action, "type", "") = "double-click" ->
           device(action, env, rnd.failAt, do_double_click(env.pointer, get_xy(action), rnd),
                  [coordinates |-> get_xy(action)], "after")
      [] get(action, "type", "") = "drag" ->
           IF \E f \in {"x1", "y1", "x2", "y2"} : ~has(action, f) THEN key_error(env)
           ELSE device(action, env, rnd.failAt,
                  do_drag(env.pointer, action.x1, action.y1, action.x2, action.y2, rnd),
                  [from |-> <<action.x1, action.y1>>, to |-> <<action.x2, action.y2>>], "none")
      [] get(action, "type", "") = "scroll" ->
           IF ~has(action, "amount") THEN key_error(env)
           ELSE device(action, env, rnd.failAt,
                  do_scroll(env.pointer, action.amount, get_xy(action), rnd),
                  [amount |-> action.amount], "after")
      [] get(action, "type", "") = "write" ->
           IF ~has(action, "text") THEN key_error(env)
           ELSE device(action, env, rnd.failAt, do_write(action.text), [text |-> action.text],
                       "before")
      [] get(action, "type", "") = "press" ->
           IF ~has(action, "key") THEN key_error(env)
           ELSE device(action, env, rnd.failAt,
                  <<[op |-> "press", key |-> action.key]>>, [key |-> action.key], "after")
      [] get(action, "type", "") = "hotkey" ->
           IF ~has(action, "keys") THEN key_error(env)
           ELSE device(action, env, rnd.failAt,
                  <<[op |-> "hotkey", keys |-> action.keys]>>, [keys |-> action.keys], "after")
      [] get(action, "type", "") = "wait" -> wait_for(get(action, "seconds", 1), env)
      [] get(action, "type", "") = "screenshot" ->
           IF ~env.has_pyautogui
           THEN returned([action |-> "screenshot", success |-> TRUE], <<>>, env.dir)
           ELSE screenshot_to(screenshot_file(action, rnd), env, rnd.failAt)
      [] OTHER -> returned(failure("Accion desconocida"), <<>>, env.dir)

(***************************************************************************)
(* Inputs                                                                  *)
(***************************************************************************)
\* image stems: a.png, a_b.png, a_b_a.png, b_a.png, A_b.png
F_a == <<"a">>
F_ab == <<"a", "_", "b">>
F_aba == <<"a", "_", "b", "_", "a">>
F_ba == <<"b", "_", "a">>
F_Ab == <<"A", "_", "b">>
F_shot == <<"s", "_", "1">>
Stems == {F_a, F_ab, F_aba, F_ba, F_Ab, F_shot}

\* element names given by callers: "a b", "a_b", "A b", "a", "b", "bb", ""
N_a_b == <<"a", " ", "b">>
N_ab == <<"a", "_", "b">>
N_A_b == <<"A", " ", "b">>
N_a == <<"a">>
N_b == <<"b">>
N_bb == <<"b", "b">>
N_empty == <<>>

element(key, images, tags) == new_element(key, <<>>, images, tags)

FileAbsent == [exists |-> FALSE, valid |-> TRUE, elements |-> <<>>]
FileCorrupt == [exists |-> TRUE, valid |-> FALSE, elements |-> <<>>]
\* {"a_b": {images: ["a.png"], tags: ["bb"]}}
FileOne == [exists |-> TRUE, valid |-> TRUE,
            elements |-> <<element(N_ab, <<F_a>>, <<N_bb>>)>>]
\* {"a": {images: ["a.png", "b_a.png"]}, "a_b": {images: ["a_b.png"], tags: ["a"]}}
FileTwo == [exists |-> TRUE, valid |-> TRUE,
            elements |-> <<element(N_a, <<F_a, F_ba>>, <<>>),
                           element(N_ab, <<F_ab>>, <<N_a>>)>>]

template(readable, res) == [readable |-> readable, w |-> 4, h |-> 6, res |-> res]
at(x, y, score) == [x |-> x, y |-> y, score |-> score]
NoMatch == template(TRUE, <<>>)

\* every template matches once, a_b.png best
ScreenHit == [shotOk |-> TRUE,
              tm |-> [f \in Stems |->
                        IF f = F_a THEN template(TRUE, <<at(10, 20, 95), at(11, 20, 60)>>)
                        ELSE IF f = F_ab THEN template(TRUE, <<at(30, 40, 99)>>)
                        ELSE template(TRUE, <<at(1, 1, 85)>>)]]
\* equal best scores inside one template and across templates
ScreenTie == [shotOk |-> TRUE,
              tm |-> [f \in Stems |->
                        IF f = F_a THEN template(TRUE, <<at(10, 20, 90), at(12, 20, 90)>>)
                        ELSE IF f = F_ab THEN template(TRUE, <<at(30, 40, 90)>>)
                        ELSE template(TRUE, <<at(50, 50, 82), at(52, 50, 90)>>)]]
\* nothing correlates: scores at or below zero
ScreenMiss == [shotOk |-> TRUE,
               tm |-> [f \in Stems |-> template(TRUE, <<at(5, 5, 0), at(6, 5, -20)>>)]]
\* a.png cannot be read as an image, the others match weakly
ScreenUnreadable == [shotOk |-> TRUE,
                     tm |-> [f \in Stems |->
                               IF f = F_a THEN template(FALSE, <<at(10, 20, 95)>>)
                               ELSE template(TRUE, <<at(30, 40, 50), at(31, 40, 85)>>)]]
\* the screen capture fails
ScreenNoShot == [shotOk |-> FALSE, tm |-> [f \in Stems |-> NoMatch]]

\* the random draws of one action
RandomDraws ==
    [speed : {100}, curve : {<<0, 2>>}, jitter : {"none", "last"}, jitterVec : {<<1, -1>>},
     overshoot : BOOLEAN, overshoot_dist : {3}, time : {"1"}, failAt : 0..MaxRandom]

\* plain actions of a batch
A_wait == [type |-> "wait", seconds |-> 0]
A_bogus == [type |-> "bogus"]
A_move == [type |-> "move", x |-> 10, y |-> 0, duration |-> 0]
A_click_on == [type |-> "click-on", target |-> N_ab]
A_write_x == [type |-> "write", text |-> <<"x">>]
A_write_y == [type |-> "write", text |-> <<"y">>]
A_if_visible ==
    [type |-> "if-visible", target |-> N_ab,
     then |-> <<A_write_x, A_bogus, A_write_y>>, else |-> <<>>]
A_if_not_visible ==
    [type |-> "if-not-visible", target |-> N_ab,
     then |-> <<A_write_x>>, else |-> <<A_bogus, A_write_y>>]

BatchPool == {A_wait, A_bogus, A_move, A_click_on, A_if_visible, A_if_not_visible}

\* every list of at most n actions of the pool
ListsUpTo(pool, n) == UNION {[1..k -> pool] : k \in 0..n}

(***************************************************************************)
(* The `run` command as a state machine                                    *)
(***************************************************************************)
VARIABLES
    HAS_PYAUTOGUI,   \* pyautogui, cv2 and numpy were imported
    elementsFile,    \* elements.json
    capturesDir,     \* the captures directory
    screen,          \* what a capture and the template matching give
    pointer,         \* position of the mouse pointer
    events,          \* device calls performed so far
    actions,         \* the action list given to execute_actions
    i,               \* index of execute_actions (0-based)
    results,         \* results of execute_actions
    branch_actions,  \* the branch actions still to run
    branch,          \* "then" / "else" of the conditional being run
    executed,        \* the calls of execute_action made so far
    match,           \* what the last call of find_element_on_screen returned
    stdout,          \* JSON objects printed
    exitCode,        \* process exit code, -1 while running
    pc,              \* "start", "loop", "branch", "return", "returned", "exited", "crashed", "rejected"
    cmd,             \* the command line of the process, or the library call being made
    ret,             \* what the last library call returned
    sequencesDir,    \* the sequences directory: the stored documents, in listing order
    clock,           \* the time, advanced by every call that reads it
    sounds           \* the audio feedback: its state file, its libraries, its module globals

vars == <<HAS_PYAUTOGUI, elementsFile, capturesDir, screen, pointer, events, actions, i,
          results, branch_actions, branch, executed, match, stdout, exitCode, pc,
          cmd, ret, sequencesDir, clock, sounds>>

\* what the batch runner leaves alone: the command line, the sequence store
\* and the time
storeVars == <<cmd, ret, sequencesDir, clock>>

\* the `run` command: the action list comes with the command line
RunCommand == [name |-> "run"]

\* no sequence is stored and no library call was made
InitRun ==
    /\ cmd = RunCommand
    /\ sounds = SoundsOff
    /\ ret = <<>>
    /\ sequencesDir = <<>>
    /\ clock = 0

HAS_CV2 == HAS_PYAUTOGUI

env == [has_pyautogui |-> HAS_PYAUTOGUI, file |-> elementsFile, dir |-> capturesDir,
        screen |-> screen, pointer |-> pointer, sounds |-> sounds]

Conditionals == {"if-visible", "if-not-visible"}

InitProcess ==
    /\ pointer = <<0, 0>>
    /\ events = <<>>
    /\ i = 0
    /\ results = <<>>
    /\ branch_actions = <<>>
    /\ branch = ""
    /\ executed = <<>>
    /\ match = <<>>
    /\ stdout = <<>>
    /\ exitCode = -1
    /\ pc = "start"

Init ==
    /\ HAS_PYAUTOGUI \in BOOLEAN
    /\ elementsFile \in {FileOne, FileCorrupt}
    /\ capturesDir = <<F_a, F_ab>>
    /\ screen \in {ScreenHit, ScreenMiss, ScreenNoShot}
    /\ actions \in ListsUpTo(BatchPool, MaxActions)
    /\ InitProcess
    /\ InitRun

\* cmd_run up to the call of execute_actions
CmdRun ==
    /\ cmd.name = "run"
    /\ pc = "start"
    /\ pc' = "loop"
    /\ UNCHANGED <<HAS_PYAUTOGUI, sounds, elementsFile, capturesDir, screen, pointer, events, actions,
                   i, results, branch_actions, branch, executed, match, stdout, exitCode>>
    /\ UNCHANGED storeVars

\* error(): print the message and exit with code 1
Exit(r) ==
    /\ stdout' = Append(stdout \o get(r, "out", <<>>), r.result)
    /\ exitCode' = 1
    /\ pc' = "exited"
    /\ UNCHANGED <<i, results, branch_actions, branch>>

\* the effects of one execute_action call on the devices and the files
Effects(r) ==
    /\ events' = events \o r.calls
    /\ pointer' = pointer_after(pointer, r.calls)
    /\ capturesDir' = r.dir
    /\ match' = IF r.match = <<>> THEN match ELSE r.match
    /\ sounds' = get(r, "sounds", sounds)

\* mutant of stops: a failure does not end the while loop
stops_never(result) == FALSE

\* `if not result.get('success', True): break` of the while loop
stops(result) == ~get(result, "success", TRUE)

\* mutant of branch_stops: a failing branch action does not end the batch
branch_stops_never(branch_result) == FALSE

\* `if not branch_result.get('success', True): return results` of the for loop
branch_stops(branch_result) == ~get(branch_result, "success", TRUE)

\* mutant of condition_met: if-not-visible is not negated
condition_met_visible(action_type, visible) == visible

\* `condition_met` of a conditional
condition_met(action_type, visible) == IF action_type = "if-visible" THEN visible ELSE ~visible

\* mutant of conditional_result: success reports the visibility
conditional_result_visible(action, step, v) ==
    [action |-> action.type,
     target |-> get(action, "target", <<>>),
     condition_met |-> condition_met(action.type, v.visible),
     visible |-> v.visible,
     branch |-> IF condition_met(action.type, v.visible) THEN "then" ELSE "else",
     step |-> step,
     success |-> v.visible,
     match_info |-> v.info]

\* the result entry of a conditional
conditional_result(action, step, v) ==
    [action |-> action.type,
     target |-> get(action, "target", <<>>),
     condition_met |-> condition_met(action.type, v.visible),
     visible |-> v.visible,
     branch |-> IF condition_met(action.type, v.visible) THEN "then" ELSE "else",
     step |-> step,
     success |-> TRUE,
     match_info |-> v.info]

\* mutant of numbered: the index of the action counted from zero
numbered_from_zero(result, step) == [step |-> step - 1] @@ result

\* `result['step'] = i + 1`, `branch_result['step'] = i + 1`
numbered(result, step) == [step |-> step] @@ result

\* the loop body after execute_action returned r for a plain action
AfterAction(r) ==
    /\ Effects(r)
    /\ executed' = Append(executed, [step |-> i + 1, branch |-> "", action |-> actions[i + 1]])
    /\ IF r.exit THEN Exit(r)
       ELSE /\ results' = Append(results, numbered(r.result, i + 1))
            /\ IF stops(r.result) THEN pc' = "return" /\ i' = i
               ELSE pc' = "loop" /\ i' = i + 1
            /\ stdout' = stdout \o get(r, "out", <<>>)
            /\ UNCHANGED <<branch_actions, branch, exitCode>>

\* one iteration of the while loop on a plain action
RunAction ==
    /\ pc = "loop"
    /\ i < Len(actions)
    /\ get(actions[i + 1], "type", "") \notin Conditionals
    /\ \E rnd \in RandomDraws : AfterAction(execute_action(actions[i + 1], env, rnd))
    /\ UNCHANGED <<HAS_PYAUTOGUI, elementsFile, screen, actions>>
    /\ UNCHANGED storeVars

\* the loop body after is_element_visible returned v for a conditional
AfterVisible(action, v, result) ==
    /\ match' = <<v.match>>
    /\ IF v.raised
       THEN /\ pc' = "crashed"
            /\ UNCHANGED <<results, branch_actions, branch, i, exitCode>>
       ELSE /\ results' = Append(results, result)
            /\ branch_actions' = IF result.condition_met THEN get(action, "then", <<>>)
                                 ELSE get(action, "else", <<>>)
            /\ branch' = result.branch
            /\ IF branch_actions' = <<>> THEN pc' = "loop" /\ i' = i + 1
               ELSE pc' = "branch" /\ i' = i
            /\ UNCHANGED exitCode

\* the conditional once its visibility is known
EvalVisible(action, v) == AfterVisible(action, v, conditional_result(action, i + 1, v))

\* one iteration of the while loop on a conditional: evaluate and pick a branch
EvalConditional ==
    /\ pc = "loop"
    /\ i < Len(actions)
    /\ get(actions[i + 1], "type", "") \in Conditionals
    /\ EvalVisible(actions[i + 1],
         is_element_visible(get(actions[i + 1], "target", <<>>),
                            get(actions[i + 1], "confidence", DEFAULT_CONFIDENCE),
                            HAS_PYAUTOGUI, HAS_CV2, elementsFile, capturesDir, screen))
    /\ UNCHANGED <<HAS_PYAUTOGUI, sounds, elementsFile, capturesDir, screen, pointer, events, actions,
                   executed, stdout>>
    /\ UNCHANGED storeVars

\* the for loop body after execute_action returned r for a branch action
AfterBranchAction(r) ==
    /\ Effects(r)
    /\ executed' = Append(executed,
                          [step |-> i + 1, branch |-> branch, action |-> Head(branch_actions)])
    /\ IF r.exit THEN Exit(r)
       ELSE /\ results' = Append(results, [branch |-> branch] @@ numbered(r.result, i + 1))
            /\ branch_actions' = Tail(branch_actions)
            /\ IF branch_stops(r.result) THEN pc' = "return" /\ i' = i
               ELSE IF Tail(branch_actions) = <<>> THEN pc' = "loop" /\ i' = i + 1
               ELSE pc' = "branch" /\ i' = i
            /\ stdout' = stdout \o get(r, "out", <<>>)
            /\ UNCHANGED <<branch, exitCode>>

\* one iteration of the for loop over the chosen branch
RunBranchAction ==
    /\ pc = "branch"
    /\ \E rnd \in RandomDraws : AfterBranchAction(execute_action(Head(branch_actions), env, rnd))
    /\ UNCHANGED <<HAS_PYAUTOGUI, elementsFile, screen, actions>>
    /\ UNCHANGED storeVars

\* the object cmd_run and cmd_seq_run print once execute_actions returned
run_summary(args, action_list, result_list) ==
    (IF args.name = "seq-run" THEN [action |-> "seq-run", sequence |-> args.seq]
     ELSE [action |-> "run"])
      @@ [total |-> Len(action_list),
          completed |-> Cardinality({k \in 1..Len(result_list) : result_list[k].success}),
          results |-> result_list]

\* execute_actions returns; cmd_run or cmd_seq_run prints the summary
Output ==
    /\ \/ pc = "return"
       \/ pc = "loop" /\ i >= Len(actions)
    /\ stdout' = Append(stdout, run_summary(cmd, actions, results))
    /\ exitCode' = 0
    /\ pc' = "returned"
    /\ UNCHANGED <<HAS_PYAUTOGUI, sounds, elementsFile, capturesDir, screen, pointer, events, actions,
                   i, results, branch_actions, branch, executed, match>>
    /\ UNCHANGED storeVars

\* the JSONDecodeError of load_elements has left execute_actions: the except
\* clause of cmd_run reports it as invalid JSON and exits with code 1
CmdRunExcept ==
    /\ pc = "crashed"
    /\ stdout' = Append(stdout, [error |-> "JSON invalido"])
    /\ exitCode' = 1
    /\ pc' = "rejected"
    /\ UNCHANGED <<HAS_PYAUTOGUI, sounds, elementsFile, capturesDir, screen, pointer, events, actions,
                   i, results, branch_actions, branch, executed, match>>
    /\ UNCHANGED storeVars

Next == CmdRun \/ RunAction \/ EvalConditional \/ RunBranchAction \/ Output \/ CmdRunExcept

Spec == Init /\ [][Next]_vars

(***************************************************************************)
(* Single actions against every kind of registry, directory and screen     *)
(***************************************************************************)
Targets == {N_a_b, N_ab, N_A_b, N_a, N_bb, N_empty}

Confidences == {-50, 0, 90}

OnTargetActions ==
    [type : {"move-to", "click-on"}, target : Targets]
      \cup [type : {"move-to", "click-on"}, target : Targets, confidence : Confidences]
      \cup [type : {"move-to", "click-on"}]

ConditionalActions ==
    [type : Conditionals, target : {N_ab, N_a_b}, confidence : Confidences,
     then : {<<A_write_x>>}, else : {<<A_bogus, A_write_y>>, <<>>}]
      \cup [type : Conditionals, then : {<<A_wait>>}]

DeviceActions ==
    {A_move,
     [type |-> "move", x |-> 3, y |-> 0],
     [type |-> "move", x |-> 10],
     [type |-> "click", x |-> 10, y |-> 0],
     [type |-> "click", button |-> "middle"],
     [type |-> "double-click", x |-> 3, y |-> 3],
     [type |-> "right-click"],
     [type |-> "drag", x1 |-> 2, y1 |-> 0, x2 |-> 4, y2 |-> 0],
     [type |-> "drag", x1 |-> 2, y1 |-> 0],
     [type |-> "scroll", amount |-> -3],
     [type |-> "scroll", amount |-> 3, x |-> 1, y |-> 1],
     [type |-> "scroll"],
     [type |-> "write", text |-> <<"@", "/", "x">>],
     [type |-> "write"],
     [type |-> "press", key |-> "enter"],
     [type |-> "press"],
     [type |-> "hotkey", keys |-> <<"ctrl", "c">>],
     [type |-> "hotkey"],
     [type |-> "screenshot"],
     [type |-> "screenshot", filename |-> F_ba]}

OtherActions == {A_wait, [type |-> "wait", seconds |-> -1], [type |-> "wait"], A_bogus, [x |-> 1]}

ActionPool == OnTargetActions \cup ConditionalActions \cup DeviceActions \cup OtherActions

InitAction ==
    /\ HAS_PYAUTOGUI \in BOOLEAN
    /\ elementsFile \in {FileAbsent, FileCorrupt, FileOne, FileTwo}
    /\ capturesDir \in {<<>>, <<F_a, F_ab>>, <<F_Ab, F_ba, F_a, F_aba>>}
    /\ screen \in {ScreenHit, ScreenTie, ScreenMiss, ScreenUnreadable, ScreenNoShot}
    /\ actions \in ListsUpTo(ActionPool, 1)
    /\ InitProcess
    /\ InitRun

SpecAction == InitAction /\ [][Next]_vars

(***************************************************************************)
(* Batches with the audio feedback on, drags and nested conditionals       *)
(***************************************************************************)
\* the audio feedback as a process finds it: off; on with the libraries and a
\* sound that plays; on with a sound file that cannot be read; on without the
\* libraries; on with a library whose import raises something else than
\* ImportError (sounddevice without PortAudio raises OSError)
SoundStates ==
    {SoundsOff,
     [SoundsOff EXCEPT !.enabled = TRUE, !.import = "ok", !.play = "played"],
     [SoundsOff EXCEPT !.enabled = TRUE, !.import = "ok", !.play = "error"],
     [SoundsOff EXCEPT !.enabled = TRUE, !.import = "ImportError"],
     [SoundsOff EXCEPT !.enabled = TRUE, !.import = "OSError"]}

A_click == [type |-> "click", x |-> 3, y |-> 0]
A_press == [type |-> "press", key |-> "enter"]
A_drag == [type |-> "drag", x1 |-> 2, y1 |-> 0, x2 |-> 4, y2 |-> 0]
\* a conditional inside the branch of a conditional
A_nested ==
    [type |-> "if-visible", target |-> N_ab,
     then |-> <<[type |-> "if-not-visible", target |-> N_a, then |-> <<A_write_x>>], A_press>>,
     else |-> <<A_wait>>]

HookPool == {A_click, A_press, A_write_x, A_drag, A_nested}

InitBatch ==
    /\ HAS_PYAUTOGUI \in BOOLEAN
    /\ elementsFile \in {FileOne, FileCorrupt}
    /\ capturesDir = <<F_a, F_ab>>
    /\ screen \in {ScreenHit, ScreenMiss}
    /\ actions \in ListsUpTo(HookPool, MaxActions)
    /\ InitProcess
    /\ cmd = RunCommand
    /\ ret = <<>>
    /\ sequencesDir = <<>>
    /\ clock = 0
    /\ sounds \in SoundStates

SpecBatch == InitBatch /\ [][Next]_vars

(***************************************************************************)
(* The other commands of the CLI, one process per command: the commands    *)
(* that run one action (move .. screenshot), near, mouse-pos and find      *)
(***************************************************************************)
\* the actions cmd_move .. cmd_screenshot build from their arguments
CliActions ==
    {[type |-> "move", x |-> 10, y |-> 0, duration |-> DEFAULT_DURATION],
     [type |-> "move-to", target |-> N_ab, duration |-> DEFAULT_DURATION],
     [type |-> "move-to", target |-> N_bb, duration |-> DEFAULT_DURATION],
     [type |-> "click", x |-> 3, y |-> 0],
     [type |-> "click-on", target |-> N_a_b],
     [type |-> "click-on", target |-> N_empty],
     [type |-> "double-click", x |-> 3, y |-> 3],
     [type |-> "right-click", x |-> 3, y |-> 0],
     A_drag,
     [type |-> "scroll", amount |-> 3],
     [type |-> "scroll", amount |-> -3, x |-> 1, y |-> 1],
     [type |-> "write", text |-> <<"@", "/", "x">>],
     A_press,
     [type |-> "hotkey", keys |-> <<"ctrl", "c">>],
     A_wait,
     [type |-> "wait", seconds |-> -1],
     [type |-> "screenshot", filename |-> F_ba]}

CliCommands ==
    {[name |-> a.type, action |-> a] : a \in CliActions}
      \cup {[name |-> "near"], [name |-> "mouse-pos"]}
      \cup {[name |-> "find", target |-> n] : n \in {N_a_b, N_bb, N_b}}

InitCli ==
    /\ HAS_PYAUTOGUI \in BOOLEAN
    /\ elementsFile \in {FileAbsent, FileCorrupt, FileOne}
    /\ capturesDir = <<F_a, F_ab>>
    /\ screen \in {ScreenHit, ScreenMiss}
    /\ actions = <<>>
    /\ InitProcess
    /\ cmd \in CliCommands
    /\ ret = <<>>
    /\ sequencesDir = <<>>
    /\ clock = 0
    /\ sounds \in SoundStates

\* the command ends: what it printed, its exit code
CliEnd(out, code, state) ==
    /\ pc = "start"
    /\ stdout' = stdout \o out
    /\ exitCode' = code
    /\ pc' = state
    /\ UNCHANGED <<HAS_PYAUTOGUI, sounds, elementsFile, capturesDir, screen, pointer, events,
                   actions, i, results, branch_actions, branch, executed, match>>
    /\ UNCHANGED storeVars

\* result = execute_action({...}); output(result)
AfterCliAction(r) ==
    /\ Effects(r)
    /\ executed' = Append(executed, [step |-> 0, branch |-> "", action |-> cmd.action])
    /\ IF r.exit THEN Exit(r)
       ELSE /\ stdout' = Append(stdout \o get(r, "out", <<>>), r.result)
            /\ exitCode' = 0
            /\ pc' = "returned"
            /\ UNCHANGED <<i, results, branch_actions, branch>>

\* cmd_move, cmd_move_to, cmd_click, cmd_click_on, cmd_double_click,
\* cmd_right_click, cmd_drag, cmd_scroll, cmd_write, cmd_press, cmd_hotkey,
\* cmd_wait, cmd_screenshot
CmdAction ==
    /\ pc = "start"
    /\ has(cmd, "action")
    /\ \E rnd \in RandomDraws : AfterCliAction(execute_action(cmd.action, env, rnd))
    /\ UNCHANGED <<HAS_PYAUTOGUI, elementsFile, screen, actions>>
    /\ UNCHANGED storeVars

\* cmd_near: the obsolete command prints its message and returns
CmdNear ==
    /\ cmd.name = "near"
    /\ CliEnd(<<[action |-> "near", success |-> FALSE, message |-> "obsoleto"]>>, 0, "returned")

cmd_mouse_pos(has_pyautogui, position) ==
    IF has_pyautogui
    THEN [out |-> <<[action |-> "mouse-pos", x |-> position[1], y |-> position[2]]>>,
          code |-> 0, pc |-> "returned"]
    ELSE [out |-> <<failure("pyautogui no disponible")>>, code |-> 1, pc |-> "exited"]

CmdMousePos ==
    /\ cmd.name = "mouse-pos"
    /\ CliEnd(cmd_mouse_pos(HAS_PYAUTOGUI, pointer).out, cmd_mouse_pos(HAS_PYAUTOGUI, pointer).code,
              cmd_mouse_pos(HAS_PYAUTOGUI, pointer).pc)

\* cmd_find once find_element answered; the JSONDecodeError of a broken
\* elements.json is caught by nobody: a traceback, nothing on standard output
find_answered(ge) ==
    IF ge.raised THEN [out |-> <<>>, code |-> 1, pc |-> "crashed"]
    ELSE IF ge.elem = <<>>
    THEN [out |-> <<failure("Elemento no encontrado")>>, code |-> 1, pc |-> "exited"]
    ELSE [out |-> <<[success |-> TRUE, action |-> "find",
                     element |-> [nombre |-> ge.elem[1].name,
                                  descripcion |-> get(ge.elem[1], "description", <<>>),
                                  images |-> get(ge.elem[1], "images", <<>>),
                                  tags |-> get(ge.elem[1], "tags", <<>>)]]>>,
          code |-> 0, pc |-> "returned"]

cmd_find(file, name) == find_answered(get_element(file, name))

CmdFind ==
    /\ cmd.name = "find"
    /\ CliEnd(cmd_find(elementsFile, cmd.target).out, cmd_find(elementsFile, cmd.target).code,
              cmd_find(elementsFile, cmd.target).pc)

NextCli == CmdAction \/ CmdNear \/ CmdMousePos \/ CmdFind

SpecCli == InitCli /\ [][NextCli]_vars

(***************************************************************************)
(* The element registry under a series of calls                            *)
(*   Each step is one whole call of a registry function, by the CLI, by    *)
(*   the capture tool or by a program that imports the module; cmd is the  *)
(*   call, ret what it gave.                                               *)
(***************************************************************************)
\* {"a": {images: ["a.png"]}, "a": {images: ["a_b.png"]}}: a file written by
\* hand in which a key comes twice
FileTwice == [exists |-> TRUE, valid |-> TRUE,
              elements |-> <<element(N_a, <<F_a>>, <<>>), element(N_a, <<F_ab>>, <<>>)>>]

\* names given to the writers, names looked up
WriterNames == {N_A_b, N_a}
LookupNames == {N_a, N_ab, N_a_b, N_A_b, N_b, N_bb, N_empty}
ImagePool == {F_a, F_ab}
TagLists == {<<>>, <<N_bb>>}

InitRegistry ==
    /\ HAS_PYAUTOGUI = TRUE
    /\ elementsFile \in {FileAbsent, FileCorrupt, FileOne, FileTwo, FileTwice}
    /\ capturesDir = <<F_a, F_ab>>
    /\ screen = ScreenHit
    /\ actions = <<>>
    /\ pointer = <<0, 0>>
    /\ events = <<>>
    /\ i = 0
    /\ results = <<>>
    /\ branch_actions = <<>>
    /\ branch = ""
    /\ executed = <<>>
    /\ match = <<>>
    /\ stdout = <<>>
    /\ exitCode = -1
    /\ pc = "session"
    /\ cmd = [op |-> "none"]
    /\ ret = <<>>
    /\ sequencesDir = <<>>
    /\ clock = 0
    /\ sounds = SoundsOff

\* one call on the registry, r what it gives
RegistryCall(call, r) ==
    /\ pc = "session"
    /\ clock < MaxCalls
    /\ cmd' = call
    /\ ret' = [raised |-> r.raised, exit |-> r.exit, value |-> r.value]
    /\ elementsFile' = r.file
    /\ clock' = clock + 1
    /\ UNCHANGED <<HAS_PYAUTOGUI, sounds, capturesDir, screen, pointer, events, actions, i, results,
                   branch_actions, branch, executed, match, stdout, exitCode, pc, sequencesDir>>

LoadElements ==
    RegistryCall([op |-> "load_elements"],
                 called(load_elements(elementsFile).raised, FALSE, elementsFile,
                        load_elements(elementsFile).elements))

GetElement ==
    \E name \in LookupNames :
        RegistryCall([op |-> "get_element", name |-> name],
                     called(get_element(elementsFile, name).raised, FALSE, elementsFile,
                            get_element(elementsFile, name).elem))

AddElement ==
    \E name \in WriterNames, images \in ListsUpTo(ImagePool, MaxImages), tags \in TagLists :
        RegistryCall([op |-> "add_element", name |-> name, images |-> images, tags |-> tags],
                     add_element(elementsFile, name, <<>>, images, tags))

AddImageToElement ==
    \E name \in WriterNames, image_file \in ImagePool :
        RegistryCall([op |-> "add_image_to_element", name |-> name, image_file |-> image_file],
                     add_image_to_element(elementsFile, name, image_file))

CaptureAddImageToElement ==
    \E name \in WriterNames, image_file \in ImagePool :
        RegistryCall([op |-> "capture", name |-> name, image_file |-> image_file],
                     capture_add_image_to_element(elementsFile, name, image_file,
                                                  <<"d">>, <<N_bb>>))

ElemDelete ==
    \E name \in WriterNames :
        RegistryCall([op |-> "elem-delete", name |-> name], cmd_elem_delete(elementsFile, name))

NextRegistry ==
    LoadElements \/ GetElement \/ AddElement \/ AddImageToElement
      \/ CaptureAddImageToElement \/ ElemDelete

SpecRegistry == InitRegistry /\ [][NextRegistry]_vars

(***************************************************************************)
(* Two writers of elements.json: the macro-agent process and the capture   *)
(* tool, each doing one call.  A call is three steps on the file: the read *)
(* of load_elements, the open(.., 'w') of save_elements, which leaves the  *)
(* file empty, and the json.dump into it.                                  *)
(*   cmd = [agent, capture]: the call of each process ("none": no call)    *)
(*   ret = [initial, agent, capture]: the file at the start and, for each  *)
(*         process, where it is and the mapping it holds in memory         *)
(***************************************************************************)
Procs == {"agent", "capture"}

NoCall == [op |-> "none"]

\* the mapping in memory once the call has changed what it loaded; exit tells
\* that error() ended the process
race_modified(elements, call) ==
    CASE call.op = "add_element" ->
           [exit |-> FALSE,
            elements |-> dict_set(elements, new_element(name_key(call.name), <<>>,
                                                        call.images, call.tags))]
      [] call.op = "add_image_to_element" ->
           [exit |-> FALSE,
            elements |-> dict_set(elements, with_image(elements, name_key(call.name),
                                                       call.image_file, <<>>, <<>>))]
      [] call.op = "capture" ->
           [exit |-> FALSE,
            elements |-> dict_set(elements, with_image(elements, name_key(call.name),
                                                       call.image_file, <<"d">>, <<N_bb>>))]
      [] OTHER ->
           IF dict_has(elements, name_key(call.name))
           THEN [exit |-> FALSE, elements |-> dict_del(elements, name_key(call.name))]
           ELSE [exit |-> TRUE, elements |-> elements]

\* the process after load_elements answered ld
race_loaded(ld, call) ==
    IF ld.raised \/ race_modified(ld.elements, call).exit
    THEN [pc |-> "failed", elements |-> <<>>]
    ELSE [pc |-> "save", elements |-> race_modified(ld.elements, call).elements]

\* mutant of race_written: the mapping written lacks its last member
race_written_short(elements) ==
    save_elements(SubSeq(elements, 1, Len(elements) - 1))

\* json.dump(elements, f) of save_elements
race_written(elements) == save_elements(elements)

\* the file a call leaves when nothing else touches the file meanwhile
race_alone(file, call) ==
    CASE call.op = "add_element" -> add_element(file, call.name, <<>>, call.images, call.tags).file
      [] call.op = "add_image_to_element" ->
           add_image_to_element(file, call.name, call.image_file).file
      [] call.op = "capture" ->
           capture_add_image_to_element(file, call.name, call.image_file, <<"d">>, <<N_bb>>).file
      [] OTHER -> cmd_elem_delete(file, call.name).file

AgentCalls ==
    {[op |-> "add_element", name |-> n, images |-> <<F_ba>>, tags |-> <<>>] : n \in WriterNames}
      \cup {[op |-> "add_image_to_element", name |-> n, image_file |-> f] :
              n \in WriterNames, f \in ImagePool}
      \cup {[op |-> "elem-delete", name |-> n] : n \in WriterNames}

CaptureCalls ==
    {[op |-> "capture", name |-> n, image_file |-> f] : n \in WriterNames, f \in ImagePool}

InitRace ==
    /\ HAS_PYAUTOGUI = TRUE
    /\ elementsFile \in {FileAbsent, FileOne, FileTwo}
    /\ capturesDir = <<F_a, F_ab>>
    /\ screen = ScreenHit
    /\ actions = <<>>
    /\ InitProcess
    /\ cmd \in [agent : AgentCalls \cup {NoCall}, capture : CaptureCalls \cup {NoCall}]
    /\ ret = [initial |-> elementsFile,
              agent |-> [pc |-> IF cmd.agent = NoCall THEN "idle" ELSE "load", elements |-> <<>>],
              capture |-> [pc |-> IF cmd.capture = NoCall THEN "idle" ELSE "load",
                           elements |-> <<>>]]
    /\ sequencesDir = <<>>
    /\ clock = 0
    /\ sounds = SoundsOff

\* one step of process p on the file
RaceStep(p, state, file) ==
    /\ ret' = [ret EXCEPT ![p] = state]
    /\ elementsFile' = file
    /\ UNCHANGED <<HAS_PYAUTOGUI, sounds, capturesDir, screen, pointer, events, actions, i,
                   results, branch_actions, branch, executed, match, stdout, exitCode, pc,
                   cmd, sequencesDir, clock>>

\* elements = load_elements() and the change of the mapping in memory
RaceLoad ==
    \E p \in Procs :
        /\ ret[p].pc = "load"
        /\ RaceStep(p, race_loaded(load_elements(elementsFile), cmd[p]), elementsFile)

\* open(ELEMENTS_FILE, 'w'): the file is there and empty
RaceOpen ==
    \E p \in Procs :
        /\ ret[p].pc = "save"
        /\ RaceStep(p, [ret[p] EXCEPT !.pc = "write"], FileCorrupt)

\* json.dump writes the mapping of the process
RaceWrite ==
    \E p \in Procs :
        /\ ret[p].pc = "write"
        /\ RaceStep(p, [ret[p] EXCEPT !.pc = "done"], race_written(ret[p].elements))

NextRace == RaceLoad \/ RaceOpen \/ RaceWrite

SpecRace == InitRace /\ [][NextRace]_vars

(***************************************************************************)
(* Sequence store                                                          *)
(*   store : the sequences directory, the list of its files [name, doc] in *)
(*           listing order; doc is the JSON object of the file             *)
(*   The action string of seq-add is kept as split(maxsplit=1) leaves it,  *)
(*   the rest cut into its words: [type, rest].                            *)
(*   A command gives [store, out, code, pc, clock]: the directory it       *)
(*   leaves, what it prints (<<>> when nothing), the exit code, where the  *)
(*   process ends and the time afterwards.                                 *)
(***************************************************************************)
PREVIEW_ACTIONS == 5
PREVIEW_TEXT == 10

stored(store, name) == \E k \in 1..Len(store) : store[k].name = name

\* load_sequence: None (<<>>) when there is no such file
load_sequence(store, name) ==
    IF stored(store, name)
    THEN <<store[CHOOSE k \in 1..Len(store) : store[k].name = name].doc>>
    ELSE <<>>

\* save_sequence: the file is overwritten, or created
save_sequence(store, name, data) ==
    IF stored(store, name)
    THEN [k \in 1..Len(store) |-> IF store[k].name = name THEN [name |-> name, doc |-> data]
                                   ELSE store[k]]
    ELSE Append(store, [name |-> name, doc |-> data])

\* os.remove of the file of `name`
remove_sequence(store, name) == SelectSeq(store, LAMBDA f : f.name # name)

\* how a command ends
ended(store, out, code, state, now) ==
    [store |-> store, out |-> out, code |-> code, pc |-> state, clock |-> now]

\* output(obj) and the return of the command
printed(store, obj, now) == ended(store, <<obj>>, 0, "returned", now)

\* error(message)
seq_error(store, message, now) ==
    ended(store, <<[success |-> FALSE, error |-> message]>>, 1, "exited", now)

\* an exception nobody catches: the traceback, exit code 1
uncaught(store, now) == ended(store, <<>>, 1, "crashed", now)

Digits == {"0", "1", "2", "3", "4", "5", "6", "7", "8", "9"}

is_digits(word) == word # <<>> /\ \A k \in 1..Len(word) : word[k] \in Digits

digit_value(c) == CHOOSE d \in 0..9 : ToString(d) = c

RECURSIVE int_from(_, _)
\* int(word) of a word of digits, acc the value of those read
int_from(word, acc) ==
    IF word = <<>> THEN acc ELSE int_from(Tail(word), acc * 10 + digit_value(Head(word)))

int_of(word) == int_from(word, 0)

RECURSIVE join(_)
\* the words with one space between them
join(words) ==
    IF words = <<>> THEN <<>>
    ELSE IF Len(words) = 1 THEN words[1]
    ELSE words[1] \o <<" ">> \o join(Tail(words))

Quotes == {"'", "\""}

RECURSIVE strip_quotes(_)
\* rest.strip("'\"")
strip_quotes(text) ==
    IF text = <<>> THEN text
    ELSE IF Head(text) \in Quotes THEN strip_quotes(Tail(text))
    ELSE IF text[Len(text)] \in Quotes THEN strip_quotes(SubSeq(text, 1, Len(text) - 1))
    ELSE text

parsed(action) == [raised |-> FALSE, action |-> action]
parse_raised == [raised |-> TRUE, action |-> <<>>]

\* parse_simple_action: int() and float() raise ValueError on a word that is
\* no number, coords[k] raises IndexError on a missing word
parse_simple_action(a) ==
    IF a.rest = <<>> THEN parsed([type |-> a.type])
    ELSE CASE a.type \in {"click-on", "move-to"} ->
                parsed([type |-> a.type, target |-> join(a.rest)])
           [] a.type = "write" -> parsed([type |-> a.type, text |-> strip_quotes(join(a.rest))])
           [] a.type = "press" -> parsed([type |-> a.type, key |-> join(a.rest)])
           [] a.type = "hotkey" -> parsed([type |-> a.type, keys |-> a.rest])
           [] a.type = "wait" ->
                IF Len(a.rest) = 1 /\ is_digits(a.rest[1])
                THEN parsed([type |-> a.type, seconds |-> int_of(a.rest[1])])
                ELSE parse_raised
           [] a.type \in {"click", "double-click", "right-click", "move"} ->
                IF Len(a.rest) >= 2 /\ is_digits(a.rest[1]) /\ is_digits(a.rest[2])
                THEN parsed([type |-> a.type, x |-> int_of(a.rest[1]), y |-> int_of(a.rest[2])])
                ELSE parse_raised
           [] a.type = "scroll" ->
                IF Len(a.rest) = 1 /\ is_digits(a.rest[1])
                THEN parsed([type |-> a.type, amount |-> int_of(a.rest[1])])
                ELSE parse_raised
           [] a.type = "drag" ->
                IF Len(a.rest) >= 4 /\ \A k \in 1..4 : is_digits(a.rest[k])
                THEN parsed([type |-> a.type, x1 |-> int_of(a.rest[1]), y1 |-> int_of(a.rest[2]),
                             x2 |-> int_of(a.rest[3]), y2 |-> int_of(a.rest[4])])
                ELSE parse_raised
           [] OTHER -> parsed([type |-> a.type])

\* the parse of the --then or --else strings: the list of the actions, or the
\* exception of the first that cannot be parsed
parse_all(strings) ==
    IF \E k \in 1..Len(strings) : parse_simple_action(strings[k]).raised THEN parse_raised
    ELSE parsed([k \in 1..Len(strings) |-> parse_simple_action(strings[k]).action])

\* the conditional seq-add builds from the target and the parsed branches
conditional_action(a, then_parsed, else_parsed) ==
    IF then_parsed.raised \/ else_parsed.raised THEN parse_raised
    ELSE parsed([type |-> a.type, target |-> join(a.rest),
                 then |-> then_parsed.action, else |-> else_parsed.action])

\* mutant of seq_with_action: the action is put in front of the list
seq_with_action_first(seq, action, now) ==
    [seq EXCEPT !.actions = <<action>> \o @] @@ [updated |-> now]

\* seq['actions'].append(action); seq['updated'] = now
seq_with_action(seq, action, now) ==
    [name \in DOMAIN seq \cup {"updated"} |->
       IF name = "updated" THEN now
       ELSE IF name = "actions" THEN Append(seq.actions, action)
       ELSE seq[name]]

\* cmd_seq_add once the sequence is loaded and the action built
seq_add_parsed(store, args, seq, p, now) ==
    IF p.raised THEN uncaught(store, now)
    ELSE printed(save_sequence(store, args.seq, seq_with_action(seq, p.action, now)),
                 [action |-> "seq-add", sequence |-> args.seq, added |-> p.action,
                  total_actions |-> Len(seq.actions) + 1],
                 now + 1)

\* cmd_seq_add once the sequence is loaded
seq_add_loaded(store, args, seq, now) ==
    IF args.action.type = "" THEN uncaught(store, now)
    ELSE IF args.action.type \in {"if-visible", "if-not-visible"}
    THEN (IF args.action.rest = <<>> THEN seq_error(store, "requiere un target", now)
          ELSE seq_add_parsed(store, args, seq,
                 conditional_action(args.action, parse_all(args.then_actions),
                                    parse_all(args.else_actions)),
                 now))
    ELSE seq_add_parsed(store, args, seq, parse_simple_action(args.action), now)

cmd_seq_add(store, args, now) ==
    IF load_sequence(store, args.seq) = <<>> THEN seq_error(store, "Secuencia no encontrada", now)
    ELSE seq_add_loaded(store, args, load_sequence(store, args.seq)[1], now)

\* the document cmd_seq_create writes, over whatever the name had
new_sequence(args, now) ==
    [name |-> args.seq,
     display_name |-> IF args.display_name = <<>> THEN args.seq ELSE args.display_name,
     description |-> args.description, created |-> now, actions |-> <<>>]

cmd_seq_create(store, args, now) ==
    printed(save_sequence(store, args.seq, new_sequence(args, now)),
            [action |-> "seq-create", name |-> args.seq,
             display_name |-> new_sequence(args, now).display_name,
             description |-> args.description, success |-> TRUE],
            now + 1)

\* mutant of cmd_seq_show: showing a sequence stamps and saves it
cmd_seq_show_touching(store, args, now) ==
    IF load_sequence(store, args.seq) = <<>> THEN seq_error(store, "Secuencia no encontrada", now)
    ELSE printed(save_sequence(store, args.seq,
                               load_sequence(store, args.seq)[1] @@ [shown |-> now]),
                 [action |-> "seq-show", sequence |-> load_sequence(store, args.seq)[1]], now)

cmd_seq_show(store, args, now) ==
    IF load_sequence(store, args.seq) = <<>> THEN seq_error(store, "Secuencia no encontrada", now)
    ELSE printed(store, [action |-> "seq-show", sequence |-> load_sequence(store, args.seq)[1]],
                 now)

\* one entry of the preview seq-list gives of an action
action_preview(act) ==
    CASE act.type = "click-on" -> <<"click", get(act, "target", "?")>>
      [] act.type = "wait" -> <<"wait", get(act, "seconds", 0)>>
      [] act.type = "write" ->
           <<"write", SubSeq(get(act, "text", <<>>), 1,
                             IF Len(get(act, "text", <<>>)) < PREVIEW_TEXT
                             THEN Len(get(act, "text", <<>>)) ELSE PREVIEW_TEXT)>>
      [] act.type = "press" -> <<"press", get(act, "key", "?")>>
      [] act.type = "hotkey" -> <<"hotkey", get(act, "keys", <<>>)>>
      [] OTHER -> <<act.type>>

\* the entry of seq-list for one document
sequence_preview(seq) ==
    [name |-> seq.name, display_name |-> get(seq, "display_name", seq.name),
     description |-> get(seq, "description", <<>>),
     actions_count |-> Len(seq.actions),
     actions_preview |->
       [k \in 1..(IF Len(seq.actions) < PREVIEW_ACTIONS THEN Len(seq.actions)
                  ELSE PREVIEW_ACTIONS) |-> action_preview(seq.actions[k])]
         \o (IF Len(seq.actions) > PREVIEW_ACTIONS
             THEN <<<<"more", Len(seq.actions) - PREVIEW_ACTIONS>>>> ELSE <<>>),
     created |-> get(seq, "created", <<>>), updated |-> get(seq, "updated", <<>>)]

cmd_seq_list(store, args, now) ==
    printed(store,
            [action |-> "seq-list", count |-> Len(store),
             sequences |-> [k \in 1..Len(store) |-> sequence_preview(store[k].doc)]],
            now)

cmd_seq_delete(store, args, now) ==
    IF stored(store, args.seq)
    THEN printed(remove_sequence(store, args.seq),
                 [action |-> "seq-delete", name |-> args.seq, success |-> TRUE], now)
    ELSE seq_error(store, "Secuencia no encontrada", now)

\* the document after seq-describe: the fields given, stamped when any was
described(seq, args, now) ==
    [name \in DOMAIN seq \cup (IF args.display_name # <<>> \/ args.description # <<>>
                               THEN {"updated"} ELSE {}) |->
       IF name = "updated" /\ (args.display_name # <<>> \/ args.description # <<>>) THEN now
       ELSE IF name = "display_name" /\ args.display_name # <<>> THEN args.display_name
       ELSE IF name = "description" /\ args.description # <<>> THEN args.description
       ELSE seq[name]]

seq_describe_loaded(store, args, seq, now) ==
    printed(IF args.display_name # <<>> \/ args.description # <<>>
            THEN save_sequence(store, args.seq, described(seq, args, now)) ELSE store,
            [action |-> "seq-describe", name |-> args.seq,
             display_name |-> described(seq, args, now).display_name,
             description |-> described(seq, args, now).description, success |-> TRUE],
            IF args.display_name # <<>> \/ args.description # <<>> THEN now + 1 ELSE now)

cmd_seq_describe(store, args, now) ==
    IF load_sequence(store, args.seq) = <<>> THEN seq_error(store, "Secuencia no encontrada", now)
    ELSE seq_describe_loaded(store, args, load_sequence(store, args.seq)[1], now)

(***************************************************************************)
(* The sequence commands, one process per command                          *)
(***************************************************************************)
\* a stored document as seq-create and seq-add leave it
document(name, action_list) ==
    [name |-> name, display_name |-> name, description |-> <<>>, created |-> 1,
     actions |-> action_list]

\* the time at which the process starts, after the times in the stored documents
StartTime == 5

StoreEmpty == <<>>
StoreOne == <<[name |-> "s1", doc |-> document("s1", <<A_wait, A_if_visible>>)]>>
StoreTwo == <<[name |-> "s2", doc |-> document("s2", <<>>) @@ [updated |-> 2]],
              [name |-> "s1", doc |-> document("s1", <<A_if_not_visible, A_bogus, A_wait>>)]>>

W_1 == <<"1">>
W_20 == <<"2", "0">>
W_quoted == <<"'", "x", "'">>

\* action strings given to seq-add: well-formed ones, one with a word that is
\* no number, one with a coordinate missing, the empty string
ActionStrings ==
    {[type |-> "wait", rest |-> <<W_1>>], [type |-> "wait", rest |-> <<N_a>>],
     [type |-> "click", rest |-> <<W_1, W_20>>], [type |-> "click", rest |-> <<W_1>>],
     [type |-> "click-on", rest |-> <<N_a, N_b>>], [type |-> "write", rest |-> <<W_quoted, N_b>>],
     [type |-> "press", rest |-> <<>>], [type |-> "hotkey", rest |-> <<N_a, N_b>>],
     [type |-> "drag", rest |-> <<W_1, W_1, W_20, W_20>>], [type |-> "scroll", rest |-> <<W_20>>],
     [type |-> "screenshot", rest |-> <<>>], [type |-> "", rest |-> <<>>]}

ConditionalStrings ==
    {[type |-> "if-visible", rest |-> <<N_ab>>], [type |-> "if-not-visible", rest |-> <<>>]}

BranchStrings ==
    {<<>>, <<[type |-> "wait", rest |-> <<W_1>>]>>,
     <<[type |-> "press", rest |-> <<N_a>>], [type |-> "click", rest |-> <<N_a>>]>>}

SequenceNames == {"s1", "s3"}

SeqCommands ==
    {[name |-> "seq-add", seq |-> n, action |-> a, then_actions |-> <<>>, else_actions |-> <<>>] :
       n \in SequenceNames, a \in ActionStrings}
    \cup {[name |-> "seq-add", seq |-> n, action |-> a, then_actions |-> t, else_actions |-> e] :
            n \in SequenceNames, a \in ConditionalStrings, t \in BranchStrings,
            e \in BranchStrings}
    \cup {[name |-> c, seq |-> n] :
            c \in {"seq-show", "seq-run", "seq-delete"}, n \in SequenceNames}
    \cup {[name |-> "seq-list"]}
    \cup {[name |-> c, seq |-> n, display_name |-> d, description |-> t] :
            c \in {"seq-create", "seq-describe"}, n \in SequenceNames,
            d \in {<<>>, N_a_b}, t \in {<<>>, N_b}}

InitStore ==
    /\ HAS_PYAUTOGUI \in BOOLEAN
    /\ elementsFile = FileOne
    /\ capturesDir = <<F_a, F_ab>>
    /\ screen \in {ScreenHit, ScreenMiss}
    /\ actions = <<>>
    /\ InitProcess
    /\ cmd \in SeqCommands
    /\ ret = <<>>
    /\ sequencesDir \in {StoreEmpty, StoreOne, StoreTwo}
    /\ clock = StartTime
    /\ sounds = SoundsOff

\* a command of the sequence store that ends the process
StoreCommand(r) ==
    /\ pc = "start"
    /\ sequencesDir' = r.store
    /\ stdout' = stdout \o r.out
    /\ exitCode' = r.code
    /\ pc' = r.pc
    /\ clock' = r.clock
    /\ UNCHANGED <<HAS_PYAUTOGUI, sounds, elementsFile, capturesDir, screen, pointer, events, actions,
                   i, results, branch_actions, branch, executed, match, cmd, ret>>

CmdSeqCreate == cmd.name = "seq-create" /\ StoreCommand(cmd_seq_create(sequencesDir, cmd, clock))

CmdSeqAdd == cmd.name = "seq-add" /\ StoreCommand(cmd_seq_add(sequencesDir, cmd, clock))

CmdSeqShow == cmd.name = "seq-show" /\ StoreCommand(cmd_seq_show(sequencesDir, cmd, clock))

CmdSeqList == cmd.name = "seq-list" /\ StoreCommand(cmd_seq_list(sequencesDir, cmd, clock))

CmdSeqDelete == cmd.name = "seq-delete" /\ StoreCommand(cmd_seq_delete(sequencesDir, cmd, clock))

CmdSeqDescribe ==
    cmd.name = "seq-describe" /\ StoreCommand(cmd_seq_describe(sequencesDir, cmd, clock))

\* cmd_seq_run up to the call of execute_actions on the stored actions
CmdSeqRun ==
    /\ cmd.name = "seq-run"
    /\ IF load_sequence(sequencesDir, cmd.seq) = <<>>
       THEN StoreCommand(seq_error(sequencesDir, "Secuencia no encontrada", clock))
       ELSE /\ pc = "start"
            /\ actions' = load_sequence(sequencesDir, cmd.seq)[1].actions
            /\ pc' = "loop"
            /\ UNCHANGED <<HAS_PYAUTOGUI, sounds, elementsFile, capturesDir, screen, pointer, events,
                           i, results, branch_actions, branch, executed, match, stdout,
                           exitCode, cmd, ret, sequencesDir, clock>>

NextStore ==
    CmdSeqCreate \/ CmdSeqAdd \/ CmdSeqShow \/ CmdSeqList \/ CmdSeqDelete \/ CmdSeqDescribe
      \/ CmdSeqRun \/ RunAction \/ EvalConditional \/ RunBranchAction \/ Output

SpecStore == InitStore /\ [][NextStore]_vars

(***************************************************************************)
(* The pointer mover and the keyboard helper, one call per process         *)
(*   events are the device calls of the call, ret.start is where the       *)
(*   pointer was when it began; the pointer stays where the call left it.  *)
(***************************************************************************)
\* every text of at most n characters among a letter, an accented letter and
\* the newline
TextsUpTo(n) == UNION {[1..k -> {"x", "@", "/"}] : k \in 0..n}

MoveTargets == {0, 3, 10} \X {0, 4}
MoveDurations == {0, DEFAULT_DURATION}

InitHelpers ==
    /\ HAS_PYAUTOGUI \in BOOLEAN
    /\ elementsFile = FileOne
    /\ capturesDir = <<F_a, F_ab>>
    /\ screen = ScreenHit
    /\ actions = <<>>
    /\ pointer = <<0, 0>>
    /\ events = <<>>
    /\ i = 0
    /\ results = <<>>
    /\ branch_actions = <<>>
    /\ branch = ""
    /\ executed = <<>>
    /\ match = <<>>
    /\ stdout = <<>>
    /\ exitCode = -1
    /\ pc = "session"
    /\ cmd = [op |-> "none"]
    /\ ret = <<>>
    /\ sequencesDir = <<>>
    /\ clock = 0
    /\ sounds = SoundsOff

\* one call of a helper that needs pyautogui: error() when it is missing
HelperCall(call, calls) ==
    /\ pc = "session"
    /\ cmd' = call
    /\ ret' = [raised |-> FALSE, exit |-> ~HAS_PYAUTOGUI, value |-> <<>>, start |-> pointer]
    /\ events' = IF HAS_PYAUTOGUI THEN calls ELSE <<>>
    /\ pointer' = IF HAS_PYAUTOGUI THEN pointer_after(pointer, calls) ELSE pointer
    /\ UNCHANGED <<HAS_PYAUTOGUI, sounds, elementsFile, capturesDir, screen, actions, i, results,
                   branch_actions, branch, executed, match, stdout, exitCode, pc,
                   sequencesDir, clock>>

MoveSmooth ==
    \E target \in MoveTargets, duration \in MoveDurations, humanize \in BOOLEAN,
       rnd \in RandomDraws :
        HelperCall([op |-> "move_smooth", x |-> target[1], y |-> target[2],
                    duration |-> duration, humanize |-> humanize, rnd |-> rnd],
                   move_smooth(pointer, target[1], target[2], duration, humanize, rnd))

DoWrite ==
    \E text \in TextsUpTo(MaxText) :
        HelperCall([op |-> "do_write", text |-> text], do_write(text))

NextHelpers == MoveSmooth \/ DoWrite

SpecHelpers == InitHelpers /\ [][NextHelpers]_vars

(***************************************************************************)
(* Properties                                                              *)
(***************************************************************************)
\* the result entry a conditional appends for itself
IsConditionalEntry(r) == "condition_met" \in DOMAIN r

\* the result entry of an action of a branch
IsBranchEntry(r) == "branch" \in DOMAIN r /\ "condition_met" \notin DOMAIN r

AllPlain == \A j \in 1..Len(actions) : get(actions[j], "type", "") \notin Conditionals

\* the number of results that come from a call of execute_action
ActionResults == Cardinality({k \in 1..Len(results) : ~IsConditionalEntry(results[k])})

\* C1: in a list of plain actions the actions run in list order, one result
\* each, and the first failure result is the last result: nothing after it runs
C1_StopsAtFirstFailure ==
    AllPlain =>
      /\ \A k \in 1..Len(executed) : executed[k].step = k /\ executed[k].action = actions[k]
      /\ \A k \in 1..Len(results) : results[k].step = k
      /\ \A k \in 1..Len(results) :
           ~results[k].success =>
             /\ Len(results) = k
             /\ Len(executed) = k
             /\ pc \in {"return", "returned"}

C1_Witness ==
    /\ actions = <<A_wait, A_bogus, A_wait>>
    /\ pc = "returned"
    /\ Len(results) = 2
    /\ results[1].success
    /\ ~results[2].success
    /\ Len(executed) = 2

\* C2: a failing branch action ends the batch at once: its result is the last
\* result, its call the last call of execute_action, and the runner returns
C2_BranchFailureStops ==
    \A k \in 1..Len(results) :
        (IsBranchEntry(results[k]) /\ ~results[k].success) =>
            /\ k = Len(results)
            /\ pc \in {"return", "returned"}
            /\ Len(executed) = ActionResults
            /\ executed[Len(executed)].step = results[k].step
            /\ executed[Len(executed)].branch = results[k].branch

C2_Witness ==
    /\ actions = <<A_if_visible, A_wait>>
    /\ pc = "returned"
    /\ Len(results) = 3
    /\ IsBranchEntry(results[3])
    /\ ~results[3].success
    /\ Len(executed) = 2

\* C3: the entry of a conditional always has success = true, and a conditional
\* whose entry is the last result is running its branch or has let the loop go
\* on to the next index; a batch that returns without a failure result has run
\* every index
C3_ConditionalNeverFails ==
    /\ \A k \in 1..Len(results) : IsConditionalEntry(results[k]) => results[k].success
    /\ (results # <<>> /\ IsConditionalEntry(results[Len(results)])) =>
         \/ pc = "branch" /\ branch_actions # <<>>
         \/ pc \in {"loop", "returned"} /\ i = results[Len(results)].step
         \/ pc = "exited" /\ executed # <<>>
              /\ executed[Len(executed)].step >= results[Len(results)].step
    /\ (pc = "returned" /\ \A k \in 1..Len(results) : results[k].success) =>
         \A j \in 1..Len(actions) : \E k \in 1..Len(results) : results[k].step = j

C3_Witness ==
    /\ screen = ScreenNoShot
    /\ HAS_PYAUTOGUI
    /\ pc = "returned"
    /\ \E k \in 1..(Len(results) - 1) :
         /\ IsConditionalEntry(results[k])
         /\ ~results[k].visible
         /\ results[k].branch = "else"
         /\ results[k].success
         /\ results[k + 1].step = results[k].step + 1

\* whether the target of a conditional is visible, from the registry, the
\* directory and the screen
TargetVisible(action) ==
    is_element_visible(get(action, "target", <<>>),
                       get(action, "confidence", DEFAULT_CONFIDENCE),
                       HAS_PYAUTOGUI, HAS_CV2, elementsFile, capturesDir, screen).visible

\* the branch a conditional must take
ExpectedBranch(action) ==
    IF (action.type = "if-visible") = TargetVisible(action) THEN "then" ELSE "else"

\* the calls made for step j are the first actions of `list`, in order, marked b
RunsPrefixOf(j, list, b) ==
    /\ \A m \in 1..Len(executed) : executed[m].step = j => executed[m].branch = b
    /\ Cardinality({m \in 1..Len(executed) : executed[m].step = j}) <= Len(list)
    /\ \A m \in 1..Len(executed) :
         executed[m].step = j =>
           executed[m].action = list[Cardinality({n \in 1..m : executed[n].step = j})]

\* C4: if-visible takes `then` iff the target is visible, if-not-visible iff it
\* is not; only actions of the selected list run, and the conditional's entry
\* and every branch entry carry the name of the selected branch
C4_BranchSelection ==
    \A k \in 1..Len(results) :
        IsConditionalEntry(results[k]) =>
            /\ results[k].branch = ExpectedBranch(actions[results[k].step])
            /\ RunsPrefixOf(results[k].step,
                            get(actions[results[k].step], results[k].branch, <<>>),
                            results[k].branch)
            /\ \A j \in 1..Len(results) :
                 results[j].step = results[k].step =>
                   "branch" \in DOMAIN results[j] /\ results[j].branch = results[k].branch

C4_Witness ==
    \E k \in 1..(Len(results) - 1) :
        /\ IsConditionalEntry(results[k])
        /\ results[k].action = "if-visible"
        /\ results[k].visible
        /\ results[k].branch = "then"
        /\ results[k + 1].branch = "then"
        /\ results[k + 1].success
        /\ results[k + 1].text = <<"x">>

\* the only action of the list is a move-to / click-on with a target
OnTargetRun ==
    /\ Len(actions) = 1
    /\ get(actions[1], "type", "") \in {"move-to", "click-on"}
    /\ has(actions[1], "target")
    /\ executed # <<>>

\* result r carries every field of the diagnostics
Carries(r, info) == \A f \in DOMAIN info : f \in DOMAIN r /\ r[f] = info[f]

\* C5: a move-to / click-on asks the matcher first, and when the matcher
\* returns no coordinate the result is a failure carrying the diagnostics and
\* no device call was made: the pointer has not moved, nothing was clicked
C5_UnresolvedTargetFails ==
    OnTargetRun =>
      /\ match # <<>>
      /\ match[1].name = actions[1].target
      /\ (~match[1].raised /\ match[1].coords = <<>>) =>
           /\ events = <<>>
           /\ pointer = <<0, 0>>
           /\ Len(results) = 1
           /\ ~results[1].success
           /\ Carries(results[1], match[1].info)

C5_Witness ==
    /\ OnTargetRun
    /\ actions[1].type = "click-on"
    /\ match # <<>>
    /\ match[1].method = "not_found"
    /\ match[1].info.images_tested > 0
    /\ pc = "returned"
    /\ ~results[1].success
    /\ events = <<>>

\* C6: every call of execute_action gives a result, success or failure; no
\* error leaves execute_action and ends the process
C6_ErrorsBecomeFailureResults ==
    /\ pc # "exited"
    /\ pc \in {"loop", "branch", "return", "returned"} => Len(executed) = ActionResults

\* C7: no exception leaves execute_actions: the run never ends in an uncaught
\* exception raised while a conditional is evaluated
C7_NoExceptionEscapesBatch == pc # "crashed"

\* the registry has an element under the key of `name` with a recorded image
\* that exists, can be read and matches the screen at `confidence`
RegisteredAndOnScreen(name, confidence) ==
    /\ elementsFile.exists
    /\ elementsFile.valid
    /\ screen.shotOk
    /\ \E e \in 1..Len(elementsFile.elements) :
         /\ elementsFile.elements[e].key = name_key(name)
         /\ \E g \in 1..Len(elementsFile.elements[e].images) :
              /\ list_in(elementsFile.elements[e].images[g], capturesDir)
              /\ screen.tm[elementsFile.elements[e].images[g]].readable
              /\ \E l \in 1..Len(screen.tm[elementsFile.elements[e].images[g]].res) :
                   /\ screen.tm[elementsFile.elements[e].images[g]].res[l].score >= confidence
                   /\ screen.tm[elementsFile.elements[e].images[g]].res[l].score > 0

\* C8: a name whose normalized form is a registry key resolves that element:
\* when one of its images is on the screen, find reports the element and
\* returns method "image"
C8_DisplayNameResolves ==
    (match # <<>> /\ HAS_PYAUTOGUI /\ RegisteredAndOnScreen(match[1].name, match[1].confidence)) =>
      /\ match[1].info.element_config = <<name_key(match[1].name)>>
      /\ match[1].method = "image"

\* C9: a "not_found" return has zero-match diagnostics
C9_NotFoundHasNoMatches ==
    (match # <<>> /\ match[1].method = "not_found") =>
      /\ match[1].info.matches_found = 0
      /\ match[1].info.all_matches = <<>>

RECURSIVE CandidatesOf(_, _, _)
\* every location at or above the threshold of every readable image of the
\* list, in the order the matcher meets them: [x, y, score] of the center
CandidatesOf(image_files, tm, confidence) ==
    IF image_files = <<>> THEN <<>>
    ELSE (IF tm[Head(image_files)].readable
          THEN [k \in 1..Len(locations(tm[Head(image_files)].res, confidence)) |->
                  [x |-> locations(tm[Head(image_files)].res, confidence)[k].x
                           + (tm[Head(image_files)].w \div 2),
                   y |-> locations(tm[Head(image_files)].res, confidence)[k].y
                           + (tm[Head(image_files)].h \div 2),
                   score |-> locations(tm[Head(image_files)].res, confidence)[k].score]]
          ELSE <<>>)
         \o CandidatesOf(Tail(image_files), tm, confidence)

\* m.coords is the first highest-scoring candidate of cands, m.info.best_score
\* its score
IsFirstBest(m, cands) ==
    \E b \in 1..Len(cands) :
        /\ \A k \in 1..Len(cands) : cands[k].score <= cands[b].score
        /\ \A k \in 1..(b - 1) : cands[k].score < cands[b].score
        /\ m.coords = <<cands[b].x, cands[b].y>>
        /\ m.info.best_score = cands[b].score

\* the candidates the call recorded in m had to choose from
MatchCandidates(m) ==
    CandidatesOf(candidate_images(capturesDir, get_element(elementsFile, m.name).elem, m.name),
                 screen.tm, m.confidence)

Unavailable == {"no_pyautogui", "no_cv2", "screenshot_error"}

\* C11: when a library is missing or the screen capture fails, a returning
\* find gives no coordinate and a method of Unavailable; "not_found" is given
\* only with the libraries there and the screen captured
C11_UnavailableIsNotNotFound ==
    (match # <<>> /\ ~match[1].raised) =>
      /\ (~HAS_PYAUTOGUI \/ ~HAS_CV2 \/ ~screen.shotOk) =>
            (match[1].coords = <<>> /\ match[1].method \in Unavailable)
      /\ match[1].method = "not_found" => (HAS_PYAUTOGUI /\ HAS_CV2 /\ screen.shotOk)

\* the screen capture failed with the libraries there and candidate images to test
C11_Witness ==
    /\ match # <<>>
    /\ HAS_PYAUTOGUI
    /\ ~screen.shotOk
    /\ match[1].method = "screenshot_error"
    /\ match[1].info.images_tested > 0

(***************************************************************************)
(* Registry lookup, invariant and persistence (C12, C13, C14)              *)
(***************************************************************************)
\* what get(name) is to give on a loaded mapping: the record under the exact
\* key, else the first whose key contains the name, else the first with a tag
\* containing it, else none (the name and what it is compared to in lower case)
FirstWhere(elements, S) ==
    IF S = {} THEN <<>> ELSE <<elements[CHOOSE k \in S : \A j \in S : k <= j]>>

ExpectedGet(elements, n) ==
    IF \E k \in 1..Len(elements) : elements[k].key = n
    THEN FirstWhere(elements, {k \in 1..Len(elements) : elements[k].key = n})
    ELSE IF \E k \in 1..Len(elements) : str_in(n, lower(elements[k].key))
    THEN FirstWhere(elements, {k \in 1..Len(elements) : str_in(n, lower(elements[k].key))})
    ELSE FirstWhere(elements,
           {k \in 1..Len(elements) :
              \E t \in 1..Len(elements[k].tags) : str_in(n, lower(elements[k].tags[t]))})

\* C12: a call of get on a registry that can be read returns the record the
\* order exact key, substring of a key, substring of a tag selects, none on a
\* miss, does not raise and leaves the registry file as it was
C12_GetOrder ==
    [][(cmd'.op = "get_element" /\ clock' = clock + 1 /\ ~load_elements(elementsFile).raised) =>
         /\ ~ret'.raised
         /\ ret'.value = ExpectedGet(load_elements(elementsFile).elements, lower(cmd'.name))
         /\ elementsFile' = elementsFile]_vars

\* the exact key was returned although an earlier record's key contains the name
C12_Witness ==
    /\ cmd.op = "get_element"
    /\ ret.value # <<>>
    /\ ret.value[1].key = lower(cmd.name)
    /\ Len(elementsFile.elements) > 1
    /\ elementsFile.elements[1].key # lower(cmd.name)
    /\ str_in(lower(cmd.name), elementsFile.elements[1].key)

\* no member of the list comes twice
NoDuplicates(l) == \A a, b \in 1..Len(l) : l[a] = l[b] => a = b

\* C13: every element of the registry file is stored under the normalized form
\* of its name and lists no image twice
C13_RegistryInvariant ==
    (elementsFile.exists /\ elementsFile.valid) =>
      \A k \in 1..Len(elementsFile.elements) :
          /\ elementsFile.elements[k].key = name_key(elementsFile.elements[k].name)
          /\ NoDuplicates(elementsFile.elements[k].images)

\* a well-formed element mapping is stored: a JSON object with no key twice
WellFormed(file) ==
    /\ file.exists
    /\ file.valid
    /\ \A a, b \in 1..Len(file.elements) : file.elements[a].key = file.elements[b].key => a = b

RECURSIVE Typed(_)
\* what a list of keyboard calls puts into the focused field, shift+enter
\* counted as the new line ("/") it makes
Typed(calls) ==
    IF calls = <<>> THEN <<>>
    ELSE (IF Head(calls).op = "write" THEN Head(calls).text ELSE <<"/">>) \o Typed(Tail(calls))

\* C15: do_write types no newline character; what it types, with each
\* shift+enter read as a newline, is the text without its accents, so the
\* segments come in order with one shift+enter per newline of the text
C15_WriteSplitsOnNewline ==
    (cmd.op = "do_write" /\ ~ret.exit) =>
      /\ \A k \in 1..Len(events) :
            \/ events[k].op = "write" /\ ~list_in("/", events[k].text)
            \/ events[k].op = "hotkey" /\ events[k].keys = <<"shift", "enter">>
      /\ Typed(events) = remove_accents(cmd.text)
      /\ Cardinality({k \in 1..Len(events) : events[k].op = "hotkey"})
           = Cardinality({k \in 1..Len(cmd.text) : cmd.text[k] = "/"})
      /\ \A k \in 1..Len(events) :
            (events[k].op = "write" /\ events[k].text = <<>>) => cmd.text = <<>>

\* an accented letter, a newline and a letter were written: two segments
\* with one shift+enter between them
C15_Witness ==
    /\ cmd.op = "do_write"
    /\ ~ret.exit
    /\ cmd.text = <<"@", "/", "x">>
    /\ events = <<[op |-> "write", text |-> <<"a">>],
                  [op |-> "hotkey", keys |-> <<"shift", "enter">>],
                  [op |-> "write", text |-> <<"x">>]>>

\* the call of move_smooth in cmd returned
MoveReturned == cmd.op = "move_smooth" /\ ~ret.exit

\* the square of the distance from where the pointer was to the target
Distance2 == (cmd.x - ret.start[1]) * (cmd.x - ret.start[1])
               + (cmd.y - ret.start[2]) * (cmd.y - ret.start[2])

\* C16: the last placement of every returning move_smooth is the target and
\* the pointer rests there, so an overshoot placement is never the last one:
\* the correction at the target follows it
C16_MoveEndsOnTarget ==
    MoveReturned =>
      /\ events # <<>>
      /\ \A k \in 1..Len(events) : events[k].op = "moveTo"
      /\ events[Len(events)] = moveTo(cmd.x, cmd.y)
      /\ pointer = <<cmd.x, cmd.y>>

\* a synthesized path with a jittered last step, overshoot and correction
C16_Witness ==
    /\ MoveReturned
    /\ cmd.humanize
    /\ cmd.rnd.overshoot
    /\ cmd.rnd.jitter = "last"
    /\ Len(events) > MIN_STEPS + 2
    /\ events[Len(events) - 1] # moveTo(cmd.x, cmd.y)
    /\ events[Len(events) - 2] # moveTo(cmd.x, cmd.y)

\* C17: nearer than 5 px, move_smooth issues the one placement at the target
C17_ShortMoveIsDirect ==
    (MoveReturned /\ Distance2 < DIRECT_DISTANCE * DIRECT_DISTANCE) =>
      events = <<moveTo(cmd.x, cmd.y)>>

\* a humanized move of less than 5 px with an overshoot drawn
C17_Witness ==
    /\ MoveReturned
    /\ cmd.humanize
    /\ cmd.rnd.overshoot
    /\ Distance2 > 0
    /\ Distance2 < DIRECT_DISTANCE * DIRECT_DISTANCE
    /\ events = <<moveTo(cmd.x, cmd.y)>>

(***************************************************************************)
(* The summary of a run (C18)                                              *)
(***************************************************************************)
\* the object the run printed last
Summary == stdout[Len(stdout)]

\* C18: the summary of a run carries the results, total is the number of
\* top-level actions, completed lies between 0 and total, and equals total
\* when no result is a failure
C18_CompletedWithinTotal ==
    pc = "returned" =>
      /\ Summary.results = results
      /\ Summary.total = Len(actions)
      /\ 0 <= Summary.completed
      /\ Summary.completed <= Summary.total
      /\ (\A k \in 1..Len(results) : results[k].success) => Summary.completed = Summary.total

\* the stored document of `name`
doc_of(store, name) == store[CHOOSE k \in 1..Len(store) : store[k].name = name].doc

\* the files of the store other than that of `name` are the same, in the same
\* places, and no file came or went
OthersKept(before, after, name) ==
    /\ Len(after) = Len(before)
    /\ \A k \in 1..Len(before) :
         /\ after[k].name = before[k].name
         /\ before[k].name # name => after[k] = before[k]

\* seq-add was given an action string it can parse
WellFormedAdd ==
    /\ cmd.action.type # ""
    /\ IF cmd.action.type \in {"if-visible", "if-not-visible"}
       THEN /\ cmd.action.rest # <<>>
            /\ ~parse_all(cmd.then_actions).raised
            /\ ~parse_all(cmd.else_actions).raised
       ELSE ~parse_simple_action(cmd.action).raised

\* C19: seq-add on a stored sequence, given an action string it can parse,
\* leaves the document with the action as the last element of the list, the
\* actions it had before it in their order, the update time stamped, and the
\* name, display name, description and creation time as they were; the other
\* files are untouched. On a name with no stored sequence it prints an error,
\* exits with code 1 and the directory is as it was.
C19_AddAppends ==
    [][(pc = "start" /\ cmd.name = "seq-add") =>
         IF stored(sequencesDir, cmd.seq)
         THEN WellFormedAdd =>
                /\ OthersKept(sequencesDir, sequencesDir', cmd.seq)
                /\ LET before == doc_of(sequencesDir, cmd.seq)
                       after == doc_of(sequencesDir', cmd.seq)
                   IN /\ Len(after.actions) = Len(before.actions) + 1
                      /\ SubSeq(after.actions, 1, Len(before.actions)) = before.actions
                      /\ after.actions[Len(after.actions)].type = cmd.action.type
                      /\ after.actions[Len(after.actions)] = stdout'[Len(stdout')].added
                      /\ after.updated = clock
                      /\ DOMAIN after = DOMAIN before \cup {"updated"}
                      /\ \A f \in {"name", "display_name", "description", "created"} :
                           after[f] = before[f]
         ELSE /\ sequencesDir' = sequencesDir
              /\ pc' = "exited"
              /\ exitCode' = 1
              /\ stdout' = <<[success |-> FALSE, error |-> "Secuencia no encontrada"]>>]_vars

\* seq-add put a conditional with a branch after the three actions of s1, next
\* to another stored sequence
C19_Witness ==
    /\ cmd.name = "seq-add"
    /\ pc = "returned"
    /\ Len(sequencesDir) = 2
    /\ Len(doc_of(sequencesDir, "s1").actions) = 4
    /\ doc_of(sequencesDir, "s1").actions[4].type = "if-visible"
    /\ doc_of(sequencesDir, "s1").actions[4].then # <<>>
    /\ doc_of(sequencesDir, "s1").updated = StartTime

\* C20: a step of a process running a stored sequence, showing a
\* sequence or listing the sequences leaves the sequences directory, every
\* document in it, as it was
C20_ReadersKeepStore ==
    [][cmd.name \in {"seq-run", "seq-show", "seq-list"} =>
         sequencesDir' = sequencesDir]_vars

\* a stored sequence was run to the end with an action that failed and a
\* conditional that ran its branch
C20_Witness ==
    /\ cmd.name = "seq-run"
    /\ pc = "returned"
    /\ sequencesDir = StoreTwo
    /\ \E k \in 1..Len(results) : ~results[k].success
    /\ \E k \in 1..Len(results) : has(results[k], "branch")

\* C22: no entry of the result list is a failure that the audio feedback
\* caused: an exception of the hook after the device calls of a click, a key
\* press or a typing leaves the result of the action a success
C22_SoundNeverFailsAction ==
    \A k \in 1..Len(results) : ~results[k].success => results[k].error # "sound error"

\* C21: when a command of the CLI has ended, standard output holds exactly one
\* JSON object and, when that object reports success = false, the exit code
\* of the process is not zero
C21_OneObjectAndErrorCode ==
    pc \in {"returned", "exited", "crashed"} =>
      /\ Len(stdout) = 1
      /\ ~has(stdout[1], "line")
      /\ has(stdout[1], "success") /\ ~stdout[1].success => exitCode # 0

\* the results that come from a call of execute_action, in the order of the calls
CallResults == SelectSeq(results, LAMBDA r : ~IsConditionalEntry(r))

\* C23: a conditional that stands in a branch is evaluated like one of the top
\* level: the call the branch loop makes on it does not end in a failure
\* result
C23_NestedConditionalEvaluated ==
    \A k \in 1..Len(executed) :
        /\ executed[k].branch # ""
        /\ get(executed[k].action, "type", "") \in Conditionals
        /\ k <= Len(CallResults)
        => CallResults[k].success

\* the call of find_element_on_screen got as far as the candidate images
Resolved(m) == ~m.raised /\ m.method \notin {"no_pyautogui", "no_cv2"}

\* the recorded images of the element the name resolves to that are files of
\* the captures directory, in the order of the record
ExistingRecorded(name) ==
    IF get_element(elementsFile, name).elem = <<>> THEN <<>>
    ELSE SelectSeq(get_element(elementsFile, name).elem[1].images,
                   LAMBDA f : list_in(f, capturesDir))

\* the files of the captures directory the filename patterns of a name select
PatternFiles(name) ==
    {capturesDir[k] : k \in
       {j \in 1..Len(capturesDir) :
          \/ capturesDir[j] = lower(replace_space(name))
          \/ startswith(capturesDir[j], Append(lower(replace_space(name)), "_"))
          \/ capturesDir[j] = replace_space(name)
          \/ startswith(capturesDir[j], Append(replace_space(name), "_"))
          \/ /\ Len(split_underscore(lower(replace_space(name)))) > 1
             /\ \A w \in 1..Len(split_underscore(lower(replace_space(name)))) :
                  str_in(split_underscore(lower(replace_space(name)))[w],
                         lower(capturesDir[j]))}}

\* C24: the candidates of a find are the existing recorded images of the
\* resolved element when there is one, else the files the filename patterns
\* select, each once; images_tested is the number of candidates
C24_CandidateResolution ==
    match # <<>> /\ Resolved(match[1]) =>
      /\ ExistingRecorded(match[1].name) # <<>> =>
           match[1].image_files = ExistingRecorded(match[1].name)
      /\ ExistingRecorded(match[1].name) = <<>> =>
           /\ {match[1].image_files[k] : k \in 1..Len(match[1].image_files)}
                = PatternFiles(match[1].name)
           /\ NoDuplicates(match[1].image_files)
      /\ match[1].info.images_tested = Len(match[1].image_files)

\* a find on an element with one recorded image that exists and one that does
\* not, where the filename patterns select another file
C24_Witness ==
    /\ match # <<>>
    /\ Resolved(match[1])
    /\ Len(ExistingRecorded(match[1].name)) = 1
    /\ Len(get_element(elementsFile, match[1].name).elem[1].images) = 2
    /\ PatternFiles(match[1].name)
         # {match[1].image_files[k] : k \in 1..Len(match[1].image_files)}

\* C25: with a library missing or the screen capture failing, every
\* conditional reports visible = false with success = true, if-visible takes
\* `else` and if-not-visible takes `then`, and only actions of that list run
C25_UnavailableIsNotVisible ==
    (~HAS_PYAUTOGUI \/ ~HAS_CV2 \/ ~screen.shotOk) =>
      \A k \in 1..Len(results) :
          IsConditionalEntry(results[k]) =>
            /\ ~results[k].visible
            /\ results[k].success
            /\ results[k].condition_met = (results[k].action = "if-not-visible")
            /\ results[k].branch = IF results[k].action = "if-visible" THEN "else" ELSE "then"
            /\ RunsPrefixOf(results[k].step,
                            get(actions[results[k].step], results[k].branch, <<>>),
                            results[k].branch)

\* the screen capture failed: an if-not-visible ran its `then` branch
C25_Witness ==
    /\ HAS_PYAUTOGUI
    /\ ~screen.shotOk
    /\ match # <<>>
    /\ match[1].method = "screenshot_error"
    /\ \E k \in 1..(Len(results) - 1) :
         /\ IsConditionalEntry(results[k])
         /\ results[k].action = "if-not-visible"
         /\ results[k].branch = "then"
         /\ ~IsConditionalEntry(results[k + 1])
         /\ results[k + 1].branch = "then"
         /\ results[k + 1].success

\* the file shows the update of a call: the image is recorded under the key,
\* the record is the one given, the key is gone
Reflects(file, call) ==
    CASE call.op \in {"add_image_to_element", "capture"} ->
           /\ dict_has(file.elements, name_key(call.name))
           /\ list_in(call.image_file, dict_get(file.elements, name_key(call.name)).images)
      [] call.op = "add_element" ->
           /\ dict_has(file.elements, name_key(call.name))
           /\ dict_get(file.elements, name_key(call.name)).images = call.images
      [] OTHER -> ~dict_has(file.elements, name_key(call.name))

\* C26: when only one process writes, the file its call leaves shows its update
\* and is the file the call gives as a whole on the file it started from (the
\* lost update of two interleaved writers is the state C26_Witness)
C26_SingleWriterLosesNothing ==
    \A p, q \in Procs :
        (p # q /\ cmd[q] = NoCall /\ ret[p].pc = "done") =>
          /\ elementsFile = race_alone(ret.initial, cmd[p])
          /\ Reflects(elementsFile, cmd[p])

\* both processes added an image to the same element and are done; the file
\* has the image of one of them only
C26_Witness ==
    /\ cmd.agent.op = "add_image_to_element"
    /\ cmd.capture.op = "capture"
    /\ name_key(cmd.agent.name) = name_key(cmd.capture.name)
    /\ cmd.agent.image_file # cmd.capture.image_file
    /\ ret.agent.pc = "done"
    /\ ret.capture.pc = "done"
    /\ Reflects(elementsFile, cmd.capture)
    /\ ~Reflects(elementsFile, cmd.agent)

(***************************************************************************)
(* Screenshot results (C27)                                                *)
(***************************************************************************)
\* C27: a screenshot result with success = true carries filepath and
\* image_base64, the file is in the captures directory and image_base64 is
\* the encoding of that file
C27_ScreenshotCarriesFile ==
    \A k \in 1..Len(results) :
        (has(results[k], "action") /\ results[k].action = "screenshot"
           /\ results[k].success) =>
          /\ has(results[k], "filepath")
          /\ has(results[k], "image_base64")
          /\ list_in(results[k].filepath, capturesDir)
          /\ results[k].image_base64 = results[k].filepath

ButtonCalls == SelectSeq(events, LAMBDA e : e.op \in {"mouseDown", "mouseUp"})

\* C29: once a drag has returned, with a success or a failure result, the
\* mouse button is released: the last press of the button is followed by a
\* release
C29_DragReleasesButton ==
    ButtonCalls # <<>> => ButtonCalls[Len(ButtonCalls)].op = "mouseUp"

(***************************************************************************)
(* Step numbering of the result list (C30)                                 *)
(***************************************************************************)
\* the entry k of the result list comes from the top-level action of its step
FromItsAction(k) ==
    /\ results[k].step \in 1..Len(actions)
    /\ IF IsConditionalEntry(results[k]) \/ IsBranchEntry(results[k])
       THEN get(actions[results[k].step], "type", "") \in Conditionals
       ELSE /\ get(actions[results[k].step], "type", "") \notin Conditionals
            /\ results[k].success => results[k].action = actions[results[k].step].type
    /\ IsConditionalEntry(results[k]) => results[k].action = actions[results[k].step].type

\* C30: every entry of the result list carries the 1-based index of the
\* top-level action it comes from; the steps start at 1, never decrease and
\* skip no index; the entry of a conditional opens its step and the results of
\* its branch follow it with the same step and branch, before any later step
C30_StepNumbering ==
    /\ \A k \in 1..Len(results) : "step" \in DOMAIN results[k] /\ FromItsAction(k)
    /\ results # <<>> => results[1].step = 1
    /\ \A k \in 2..Len(results) :
         /\ results[k].step \in {results[k - 1].step, results[k - 1].step + 1}
         /\ IsBranchEntry(results[k]) <=> results[k].step = results[k - 1].step
    /\ \A k \in 1..Len(results) :
         IsBranchEntry(results[k]) =>
           \E j \in 1..(k - 1) :
               /\ IsConditionalEntry(results[j])
               /\ results[j].step = results[k].step
               /\ results[j].branch = results[k].branch
    /\ pc \in {"loop", "branch", "return", "returned"} /\ results # <<>> =>
         results[Len(results)].step \in {i, i + 1}

\* a batch whose first action was plain, whose second was a conditional with a
\* branch that ran, and whose third action ran after the branch
C30_Witness ==
    /\ pc = "returned"
    /\ Len(results) >= 4
    /\ IsConditionalEntry(results[2])
    /\ ~IsConditionalEntry(results[1])
    /\ IsBranchEntry(results[3])
    /\ results[Len(results)].step = 3

====
